---- MODULE Spec2Model ----
(***************************************************************************)
(* Session and streaming coordination of the Desmond chat client.          *)
(*                                                                         *)
(* The model follows App.tsx (the query cache of conversations, the        *)
(* localStorage record, the React state of the App component, the          *)
(* sendMessage / updateConversations / generateChatTitle mutations) and    *)
(* geminiService.ts (the module-level client, chat session and active      *)
(* context cache).                                                         *)
(*                                                                         *)
(* Scheduling.  A user event or a network response is a macrotask.  The    *)
(* promise continuations it starts (the onMutate / mutationFn / onSuccess  *)
(* steps of a mutation) run as microtasks before the next macrotask; two   *)
(* mutations started in the same synchronous block advance in lock-step,   *)
(* in the order they were started.  mq holds the mutation chains that      *)
(* still have microtask steps to run.                                      *)
(***************************************************************************)
EXTENDS Integers, Sequences, FiniteSets, TLC

\* ------------------------------------------------------------------ bounds
MaxConvs == 2
MaxSends == 3
MaxOps == 3
MaxChunks == 1
MaxCaches == 2
MaxFaults == 1
MaxFold == 4

\* ------------------------------------------------------- program constants
Null == 0
NoKey == "none"
Key1 == "k1"

ProModel == "gemini-2.5-pro"
FlashModel == "gemini-2.5-flash"
LiteModel == "gemini-2.5-flash-lite"
MapsModel == "gemini-2.5-flash-lite-maps"
ImageModel == "gemini-2.5-flash-image"

\* The models the user picks from in the model selector.
ModelChoices == {ProModel, FlashModel, ImageModel}

ErrGeneric == <<"Sorry, I encountered an unexpected error. Please try again.">>
ErrKey == <<"The License Key you provided is not valid. Please go to settings to update it.">>
ImagesOk == <<"Generated images successfully.">>
ImagesNone == <<"Image generation completed but no images were returned.">>

\* Texts a user can send: plain words, words with a URL in them, or nothing
\* but white space (which the input accepts only together with files).
Texts == {"plain", "url", "blank"}

\* Attached files, by what the service distinguishes: size against the
\* inline threshold and the declared type.
SmallImage == [big |-> FALSE, pdf |-> FALSE]
BigPdf == [big |-> TRUE, pdf |-> TRUE]
BigVideo == [big |-> TRUE, pdf |-> FALSE]
FileSets == {<<>>, <<SmallImage>>, <<BigPdf>>, <<SmallImage, BigVideo>>}

\* What one call of handleSendMessage is given.
Input(text, files) == [text |-> text, files |-> files]
PlainText == Input("plain", <<>>)
UrlText == Input("url", <<>>)
FilesOnly == Input("blank", <<SmallImage>>)
WithPdf == Input("plain", <<BigPdf>>)
WithFiles == Input("plain", <<SmallImage, BigVideo>>)
SendInputs == {PlainText, UrlText, FilesOnly, WithPdf, WithFiles}

\* The texts of the suggestion buttons of an initial message.
SuggestionInputs == {PlainText, UrlText}

\* A citation.
Source(uri, title, placeId) == [uri |-> uri, title |-> title, placeId |-> placeId]

\* A chunk as the backend streams it: the parts of its first candidate, the
\* URLs of its urlContextMetadata and its grounding chunks.
Part(thought, text) == [thought |-> thought, text |-> text]

RawChunk(parts, urls, grounding) ==
  [parts |-> parts, urls |-> urls, grounding |-> grounding]

ThoughtChunk == RawChunk(<<Part(TRUE, "thinking")>>, <<>>, <<>>)

ChunkInputs ==
  { RawChunk(<<Part(FALSE, "Hel")>>, <<>>, <<>>),
    RawChunk(<<Part(FALSE, "lo")>>, <<>>, <<>>),
    RawChunk(<<Part(FALSE, "!")>>, <<>>, <<>>),
    ThoughtChunk,
    RawChunk(<<Part(FALSE, "lo"), Part(TRUE, "more")>>, <<"u1", "u1">>, <<>>),
    RawChunk(<<>>, <<>>, <<Source("u1", "T1", Null), Source("u2", "T2", "p2")>>) }

\* Exploration scopes.  A behaviour stays within one scope: at most so many
\* accepted sends, navigation operations and abnormal responses (an error, a
\* result without usage metadata or without images), sends drawn from inputs,
\* at most so many chunks streamed per send, drawn from raw, and whether the
\* title service answers at all.
Scope(sends, ops, faults, inputs, chunks, raw, titles) ==
  [sends |-> sends, ops |-> ops, faults |-> faults, inputs |-> inputs,
   chunks |-> chunks, raw |-> raw, titles |-> titles]

Scopes ==
  { Scope(1, 1, MaxFaults, SendInputs, MaxChunks, ChunkInputs, TRUE),
    Scope(1, 0, 0, {UrlText}, MaxFold, ChunkInputs, FALSE),
    Scope(2, 1, MaxFaults, {PlainText, FilesOnly, WithPdf}, 0, {}, FALSE),
    Scope(2, MaxOps, 0, {PlainText, UrlText}, 0, {}, FALSE),
    Scope(MaxSends, 1, 0, {PlainText, FilesOnly}, 0, {}, FALSE),
    Scope(MaxSends, 0, MaxFaults + 1, {PlainText, FilesOnly}, MaxChunks,
          {ThoughtChunk}, FALSE) }

\* ------------------------------------------------------------------ helpers
SeqMap(f(_), s) == [i \in 1..Len(s) |-> f(s[i])]

Ids(convs) == {convs[i].id : i \in 1..Len(convs)}

Find(convs, id) == CHOOSE i \in 1..Len(convs) : convs[i].id = id

\* ----------------------------------------------------------------- messages
Msg(id, sender, text, ts) ==
  [id |-> id, sender |-> sender, text |-> text, thoughts |-> <<>>,
   timestamp |-> ts, usageMetadata |-> FALSE, thinkingTime |-> FALSE,
   sources |-> <<>>, executableCode |-> <<>>, codeExecutionResult |-> <<>>,
   codeExecutionImages |-> <<>>, generatedImages |-> <<>>,
   suggestions |-> FALSE, files |-> <<>>]

createInitialMessages(n) ==
  << [Msg(<<n, "initial">>, "ai", <<"Hello!">>, 1) EXCEPT !.suggestions = TRUE] >>

NoChunk ==
  [text |-> <<>>, thought |-> <<>>, sources |-> <<>>, executableCode |-> <<>>,
   codeExecutionResult |-> <<>>, codeExecutionImages |-> <<>>,
   generatedImages |-> <<>>]

\* msg.id.endsWith('-ai') && !msg.timestamp
IsStreaming(m) == m.id[2] = "ai" /\ m.timestamp = 0

IsInitial(m) == m.id[2] = "initial"

mapMessagesToHistory(messages) ==
  LET valid == SelectSeq(messages,
                 LAMBDA m : ~IsInitial(m) /\ m.text # <<>> /\ m.text # <<"blank">>)
  IN  SeqMap(LAMBDA m : [role |-> IF m.sender = "user" THEN "user" ELSE "model",
                         text |-> m.text], valid)

\* existingSources.some(sOld => sOld.uri === uri)
HasUri(sources, uri) == \E i \in 1..Len(sources) : sources[i].uri = uri

\* A merge that appends every new citation.
AppendSources(old, new) == old \o new

\* The additive merge of one chunk into one message.
MergeSources(old, new) ==
  old \o SelectSeq(new, LAMBDA sNew : ~HasUri(old, sNew.uri))

\* A fold that puts each fragment in front of what the message holds.
PrependChunk(m, chunk) ==
  [m EXCEPT
     !.text = chunk.text \o @,
     !.thoughts = chunk.thought \o @,
     !.sources = MergeSources(@, chunk.sources)]

ApplyChunk(m, chunk) ==
  [m EXCEPT
     !.text = @ \o chunk.text,
     !.thoughts = @ \o chunk.thought,
     !.executableCode = @ \o chunk.executableCode,
     !.codeExecutionResult = @ \o chunk.codeExecutionResult,
     !.codeExecutionImages =
        IF chunk.codeExecutionImages # <<>> THEN chunk.codeExecutionImages ELSE @,
     !.sources = MergeSources(@, chunk.sources),
     !.generatedImages =
        IF chunk.generatedImages # <<>> THEN chunk.generatedImages ELSE @]

\* A patch that adds a message for the chunk when none is streaming.
UpsertStreamingMessage(convs, conversationId, chunk) ==
  SeqMap(LAMBDA convo :
           IF convo.id = conversationId
           THEN [convo EXCEPT !.messages =
                   IF \E i \in 1..Len(@) : IsStreaming(@[i])
                   THEN SeqMap(LAMBDA m : IF IsStreaming(m) THEN ApplyChunk(m, chunk)
                                                            ELSE m, @)
                   ELSE Append(@, ApplyChunk(Msg(<<0, "ai">>, "ai", <<>>, 0), chunk))]
           ELSE convo,
         convs)

\* A patch that folds the chunk into every ai message of the conversation.
PatchEveryAiMessage(convs, conversationId, chunk) ==
  SeqMap(LAMBDA convo :
           IF convo.id = conversationId
           THEN [convo EXCEPT !.messages =
                   SeqMap(LAMBDA m : IF m.sender = "ai" THEN ApplyChunk(m, chunk) ELSE m, @)]
           ELSE convo,
         convs)

updateStreamingMessage(convs, conversationId, chunk) ==
  SeqMap(LAMBDA convo :
           IF convo.id = conversationId
           THEN [convo EXCEPT !.messages =
                   SeqMap(LAMBDA m : IF IsStreaming(m) THEN ApplyChunk(m, chunk) ELSE m, @)]
           ELSE convo,
         convs)

\* A save that writes the messages as they are.
KeepImages(convs) == convs

\* The projection that saveConversations writes: generated images removed.
StripImages(convs) ==
  SeqMap(LAMBDA convo :
           [convo EXCEPT !.messages =
              SeqMap(LAMBDA m : [m EXCEPT !.generatedImages = <<>>], @)],
         convs)

\* ------------------------------------------------------------------- state
VARIABLES
  cache,                \* query data under conversationKeys.all
  storage,              \* localStorage 'chatHistory' (<<>>: no record)
  apiKey,
  isInitialized,
  activeConversationId,
  selectedModel,
  activeModel,
  isProSession,
  isLoading,
  activeStreamingRef,
  fileErrors,
  storageError,
  titles,               \* generateChatTitle calls awaiting the backend
  sends,                \* the sendMessage mutations, in the order started
  mq,                   \* mutation chains with microtask steps left
  ai,                   \* geminiService: the client (its key, or NoKey)
  chat,                 \* geminiService: the chat session
  activeCache,          \* geminiService: the context cache handle
  currentModelName,     \* geminiService
  pending,              \* startNewChatSession calls awaiting caches.delete
  liveCaches,           \* backend: caches created and not deleted
  nextCache,
  nextId,               \* Date.now() as the next conversation identifier
  ops,                  \* user navigation operations so far
  faults,               \* abnormal responses so far (errors, missing usage)
  escalated,            \* conversations that had a send with a file or URL
  deleteLog,            \* the caches.delete calls that returned or threw
  stored,               \* what 'chatHistory' holds: "none", "list" or a corrupt kind
  attached,             \* ChatInput: the files attached to the message being written
  picked,               \* the last file selection and the warnings it produced
  showApiKeyModal,
  deleted,              \* identifiers whose deletion was confirmed
  scope                 \* the exploration scope of this behaviour

appVars == <<apiKey, isInitialized, activeConversationId, selectedModel,
             activeModel, isProSession, isLoading, activeStreamingRef,
             fileErrors, storageError>>
serviceVars == <<ai, chat, activeCache, currentModelName, pending, liveCaches, nextCache>>
transportVars == <<titles, sends, serviceVars>>
inputVars == <<attached, picked>>
vars == <<cache, storage, appVars, titles, sends, mq, serviceVars, nextId, ops, faults,
          escalated, deleteLog, stored, attached, picked, showApiKeyModal, deleted,
          scope>>

NoChat == [model |-> "null", cachedContent |-> Null, systemInstruction |-> FALSE,
           tools |-> {}, history |-> <<>>]

\* The React state and the mutations of a page that has just mounted.
Mounted ==
  /\ isInitialized = FALSE
  /\ activeConversationId = Null
  /\ selectedModel = ProModel
  /\ activeModel = ProModel
  /\ isProSession = FALSE
  /\ isLoading = FALSE
  /\ activeStreamingRef = Null
  /\ fileErrors = "none"
  /\ storageError = FALSE
  /\ titles = <<>>
  /\ sends = <<>>
  /\ mq = <<>>
  /\ nextId = 1
  /\ ops = 0
  /\ faults = 0
  /\ escalated = {}
  /\ attached = <<>>
  /\ picked = [batch |-> <<>>, warned |-> <<>>]
  /\ showApiKeyModal = FALSE
  /\ deleted = {}

Init ==
  /\ Mounted
  /\ cache = <<>>
  /\ storage = <<>>
  /\ stored = "none"
  /\ apiKey \in {NoKey, Key1}
  /\ ai = NoKey
  /\ chat = NoChat
  /\ activeCache = Null
  /\ currentModelName = ProModel
  /\ pending = <<>>
  /\ liveCaches = {}
  /\ nextCache = 1
  /\ deleteLog = <<>>
  /\ scope \in Scopes

\* ----------------------------------------------------------------- scheduling
\* The start-up effect has run: user events come after it.
Started == apiKey = NoKey \/ isInitialized

\* An abnormal response is within the scope's budget.
Fault(abnormal) ==
  /\ abnormal => faults < scope.faults
  /\ faults' = IF abnormal THEN faults + 1 ELSE faults

MicroPcs == {"gen", "onSuccess", "onError", "onSettled"}

\* A microtask checkpoint is in progress: no macrotask runs before it ends.
Busy == mq # <<>> \/ \E s \in 1..Len(sends) : sends[s].pc \in MicroPcs

MinPhase == CHOOSE p \in {mq[i].phase : i \in 1..Len(mq)} :
              \A j \in 1..Len(mq) : p <= mq[j].phase

\* The chain whose microtask runs next: lock-step, in the order started.
Turn == CHOOSE i \in 1..Len(mq) :
          /\ mq[i].phase = MinPhase
          /\ \A j \in 1..(i - 1) : mq[j].phase # MinPhase

RemoveAt(s, i) == SubSeq(s, 1, i - 1) \o SubSeq(s, i + 1, Len(s))

Chain(kind, list, owner, sid) ==
  [kind |-> kind, phase |-> 0, list |-> list, prev |-> <<>>, before |-> <<>>,
   ok |-> TRUE, owner |-> owner, sid |-> sid]

\* updateConversationsMutation.mutate(list) / mutateAsync(list)
Write(list, owner, sid) == Chain("write", list, owner, sid)

\* ------------------------------------------------------------ geminiService
IsMapsModel(modelName) == modelName = MapsModel

ActualModelName(modelName) == IF IsMapsModel(modelName) THEN LiteModel ELSE modelName

ToolsFor(modelName) ==
  IF IsMapsModel(modelName) THEN {"googleMaps"}
  ELSE {"googleSearch", "urlContext", "codeExecution"}

\* A session that gets the system instruction whenever it has no cache.
InstructedChat(modelName, cachedContentName, history) ==
  [model |-> ActualModelName(modelName),
   cachedContent |-> cachedContentName,
   systemInstruction |-> (cachedContentName = Null),
   tools |-> ToolsFor(modelName),
   history |-> history]

CreateChat(modelName, cachedContentName, history) ==
  [model |-> ActualModelName(modelName),
   cachedContent |-> cachedContentName,
   systemInstruction |-> (cachedContentName = Null /\ history = <<>>),
   tools |-> ToolsFor(modelName),
   history |-> history]

\* The local handle after a caches.delete in try / catch / finally: the finally
\* clears it whether the call returned or threw.
KeptOnThrow(handle, ok) == IF ok THEN Null ELSE handle

ClearedHandle(handle, ok) == Null

\* The catch around caches.delete only logs: the caller goes on either way.
Propagated(ok) == ok

Swallowed(ok) == TRUE

\* startNewChatSession returns without waiting for the backend.
SessionIsSync(cachedContentName) ==
  ai = NoKey \/ activeCache = Null \/ cachedContentName # Null

\* startNewChatSession up to its first suspension.  awaiter names what resumes
\* when the call resolves: "none", "delete" (handleDeleteConversation) or
\* "send" (the mutationFn of send sid).
StartNewChatSession(modelName, cachedContentName, history, awaiter, sid) ==
  IF ai = NoKey
  THEN UNCHANGED <<currentModelName, chat, pending>>
  ELSE /\ currentModelName' = modelName
       /\ IF activeCache # Null /\ cachedContentName = Null
          THEN /\ pending' = Append(pending,
                    [model |-> modelName, history |-> history, del |-> activeCache,
                     awaiter |-> awaiter, sid |-> sid])
               /\ UNCHANGED chat
          ELSE /\ chat' = CreateChat(modelName, cachedContentName, history)
               /\ UNCHANGED pending

\* -------------------------------------------------- updateConversationsMutation
\* onMutate: snapshot, then the optimistic set.
UpdateOnMutate ==
  /\ mq # <<>> /\ \A s \in 1..Len(sends) : sends[s].pc # "gen"
  /\ mq[Turn].kind = "write" /\ mq[Turn].phase = 0
  /\ mq' = [mq EXCEPT ![Turn].phase = 1, ![Turn].prev = cache, ![Turn].before = cache]
  /\ cache' = mq[Turn].list
  /\ UNCHANGED <<storage, appVars, transportVars, nextId, ops, faults, escalated>>
  /\ UNCHANGED <<scope, deleteLog, stored, inputVars, showApiKeyModal, deleted>>

\* mutationFn: saveConversations.  setItem may throw (quota).
UpdateSave ==
  /\ mq # <<>> /\ \A s \in 1..Len(sends) : sends[s].pc # "gen"
  /\ mq[Turn].kind = "write" /\ mq[Turn].phase = 1
  /\ \E ok \in BOOLEAN :
       /\ ok \/ mq[Turn].list # <<>>
       /\ Fault(~ok)
       /\ mq' = [mq EXCEPT ![Turn].phase = 2, ![Turn].ok = ok]
       /\ storage' = IF ok THEN StripImages(mq[Turn].list) ELSE storage
       /\ stored' = IF ~ok THEN stored
                    ELSE IF mq[Turn].list # <<>> THEN "list" ELSE "none"
  /\ UNCHANGED <<cache, appVars, transportVars, nextId, ops, escalated>>
  /\ UNCHANGED <<scope, deleteLog, inputVars, showApiKeyModal, deleted>>

\* What the awaiting mutation callback does when mutateAsync settles.
Resume(owner, sid, ok) ==
  IF owner = "sendSuccess"
  THEN [sends EXCEPT ![sid].pc = IF ok THEN "onSettled" ELSE "onError"]
  ELSE IF owner = "sendError"
  THEN [sends EXCEPT ![sid].pc = "onSettled"]
  ELSE sends

\* An onError that leaves the optimistic list in place.
KeepOptimistic(chain) == chain.list

\* The snapshot onError puts back.
RollbackTarget(chain) == chain.prev

\* onSuccess: the saved list is set again.  onError: back to the snapshot.
UpdateSettle ==
  /\ mq # <<>> /\ \A s \in 1..Len(sends) : sends[s].pc # "gen"
  /\ mq[Turn].kind = "write" /\ mq[Turn].phase = 2
  /\ cache' = IF mq[Turn].ok THEN mq[Turn].list ELSE RollbackTarget(mq[Turn])
  /\ storageError' = IF mq[Turn].ok THEN storageError ELSE TRUE
  /\ sends' = Resume(mq[Turn].owner, mq[Turn].sid, mq[Turn].ok)
  /\ mq' = RemoveAt(mq, Turn)
  /\ UNCHANGED <<storage, apiKey, isInitialized, activeConversationId, selectedModel,
                 activeModel, isProSession, isLoading, activeStreamingRef, fileErrors,
                 titles, serviceVars, nextId, ops, faults, escalated>>
  /\ UNCHANGED <<scope, deleteLog, stored, inputVars, showApiKeyModal, deleted>>

\* setTimeout(() => setStorageError(null), 5000)
ClearStorageError ==
  /\ ~Busy
  /\ storageError
  /\ storageError' = FALSE
  /\ UNCHANGED <<cache, storage, apiKey, isInitialized, activeConversationId,
                 selectedModel, activeModel, isProSession, isLoading,
                 activeStreamingRef, fileErrors, transportVars, mq, nextId, ops, faults,
                 escalated>>
  /\ UNCHANGED <<scope, deleteLog, stored, inputVars, showApiKeyModal, deleted>>

\* ------------------------------------------------------------- navigation
NewConversation(model) ==
  [id |-> nextId, title |-> "New Chat", messages |-> createInitialMessages(nextId),
   model |-> model]

\* The body of handleNewChat past the credential check, with the conversations
\* and selectedModel of the render its closure belongs to.
NewChat(chains, conversations, model) ==
  /\ nextId <= MaxConvs
  /\ mq' = Append(chains, Write(<<NewConversation(model)>> \o conversations, "none", 0))
  /\ activeConversationId' = nextId
  /\ isProSession' = FALSE
  /\ StartNewChatSession(model, Null, <<>>, "none", 0)
  /\ activeModel' = model
  /\ nextId' = nextId + 1

handleNewChat ==
  /\ ~Busy /\ Started
  /\ ops < scope.ops
  /\ IF apiKey = NoKey
     THEN /\ showApiKeyModal' = TRUE
          /\ UNCHANGED <<mq, activeConversationId, isProSession, activeModel, nextId,
                         currentModelName, chat, pending>>
     ELSE /\ NewChat(mq, cache, selectedModel)
          /\ UNCHANGED showApiKeyModal
  /\ ops' = ops + 1
  /\ UNCHANGED <<cache, storage, apiKey, isInitialized, selectedModel, isLoading,
                 activeStreamingRef, fileErrors, storageError, titles, sends, ai,
                 activeCache, liveCaches, nextCache, faults, escalated>>
  /\ UNCHANGED <<scope, deleteLog, stored, inputVars, deleted>>

handleSelectConversation(id) ==
  /\ ~Busy /\ Started
  /\ ops < scope.ops
  /\ id \in Ids(cache)
  /\ LET c == cache[Find(cache, id)] IN
       /\ activeConversationId' = id
       /\ selectedModel' = c.model
       /\ StartNewChatSession(c.model, Null, mapMessagesToHistory(c.messages), "none", 0)
       /\ activeModel' = c.model
  /\ ops' = ops + 1
  /\ UNCHANGED <<cache, storage, apiKey, isInitialized, isProSession, isLoading,
                 activeStreamingRef, fileErrors, storageError, titles, sends, mq, ai,
                 activeCache, liveCaches, nextCache, nextId, faults, escalated>>
  /\ UNCHANGED <<scope, deleteLog, stored, inputVars, showApiKeyModal, deleted>>

handleModelChange(newModel) ==
  /\ ~Busy /\ Started
  /\ ops < scope.ops
  /\ selectedModel' = newModel
  /\ ops' = ops + 1
  /\ IF activeConversationId \in Ids(cache)
     THEN LET c == cache[Find(cache, activeConversationId)]
              isInitialPlaceholder == Len(c.messages) > 0 /\ IsInitial(c.messages[1])
          IN  /\ mq' = Append(mq, Write(
                      SeqMap(LAMBDA x : IF x.id = activeConversationId
                                        THEN [x EXCEPT !.model = newModel] ELSE x, cache),
                      "none", 0))
              /\ StartNewChatSession(newModel, Null,
                    IF isInitialPlaceholder THEN <<>> ELSE mapMessagesToHistory(c.messages),
                    "none", 0)
              /\ activeModel' = newModel
              /\ UNCHANGED <<activeConversationId, isProSession, nextId>>
     ELSE IF apiKey = NoKey
     THEN UNCHANGED <<mq, activeConversationId, isProSession, activeModel, nextId,
                      currentModelName, chat, pending>>
     ELSE NewChat(mq, cache, selectedModel)
  /\ showApiKeyModal' = IF activeConversationId \notin Ids(cache) /\ apiKey = NoKey
                        THEN TRUE ELSE showApiKeyModal
  /\ UNCHANGED <<cache, storage, apiKey, isInitialized, isLoading, activeStreamingRef,
                 fileErrors, storageError, titles, sends, ai, activeCache, liveCaches,
                 nextCache, faults, escalated>>
  /\ UNCHANGED <<scope, deleteLog, stored, inputVars, deleted>>

\* handleDeleteConversation, the confirmation given.
handleDeleteConversation(id) ==
  /\ ~Busy /\ Started
  /\ ops < scope.ops
  /\ id \in Ids(cache)
  /\ ops' = ops + 1
  /\ LET updatedConversations == SelectSeq(cache, LAMBDA c : c.id # id)
         first == Append(mq, Write(updatedConversations, "none", 0))
     IN  IF activeConversationId # id
         THEN /\ mq' = first
              /\ UNCHANGED <<activeConversationId, selectedModel, activeModel,
                             isProSession, nextId, currentModelName, chat, pending>>
         ELSE IF updatedConversations # <<>>
         THEN LET n == updatedConversations[1] IN
              /\ mq' = first
              /\ activeConversationId' = n.id
              /\ selectedModel' = n.model
              /\ StartNewChatSession(n.model, Null, mapMessagesToHistory(n.messages),
                                     "delete", 0)
              /\ activeModel' = IF SessionIsSync(Null) THEN n.model ELSE activeModel
              /\ UNCHANGED <<isProSession, nextId>>
         ELSE IF apiKey = NoKey
         THEN /\ mq' = first
              /\ UNCHANGED <<activeConversationId, selectedModel, activeModel,
                             isProSession, nextId, currentModelName, chat, pending>>
         ELSE /\ NewChat(first, cache, selectedModel)
              /\ UNCHANGED selectedModel
  /\ deleted' = deleted \cup {id}
  /\ showApiKeyModal' =
       IF activeConversationId = id /\ SelectSeq(cache, LAMBDA c : c.id # id) = <<>>
          /\ apiKey = NoKey
       THEN TRUE ELSE showApiKeyModal
  /\ UNCHANGED <<cache, storage, apiKey, isInitialized, isLoading, activeStreamingRef,
                 fileErrors, storageError, titles, sends, ai, activeCache, liveCaches,
                 nextCache, faults, escalated>>
  /\ UNCHANGED <<scope, deleteLog, stored, inputVars>>

\* The useEffect that runs initializeApp once a credential is stored.
initializeApp ==
  /\ ~Busy
  /\ ~isInitialized
  /\ apiKey # NoKey
  /\ \E isValidKey \in BOOLEAN :
       IF ~isValidKey
       THEN /\ apiKey' = NoKey
            /\ showApiKeyModal' = TRUE
            /\ UNCHANGED <<isInitialized, activeConversationId, selectedModel,
                           activeModel, isProSession, mq, ai, chat, currentModelName,
                           nextId>>
       ELSE /\ ai' = apiKey
            /\ UNCHANGED showApiKeyModal
            /\ isInitialized' = TRUE
            /\ IF cache # <<>>
               THEN /\ activeConversationId' = cache[1].id
                    /\ selectedModel' = cache[1].model
                    /\ currentModelName' = cache[1].model
                    /\ chat' = CreateChat(cache[1].model, Null,
                                          mapMessagesToHistory(cache[1].messages))
                    /\ activeModel' = cache[1].model
                    /\ UNCHANGED <<mq, isProSession, nextId>>
               ELSE /\ mq' = Append(mq, Write(<<NewConversation(selectedModel)>> \o cache,
                                              "none", 0))
                    /\ activeConversationId' = nextId
                    /\ isProSession' = FALSE
                    /\ currentModelName' = selectedModel
                    /\ chat' = CreateChat(selectedModel, Null, <<>>)
                    /\ activeModel' = selectedModel
                    /\ nextId' = nextId + 1
                    /\ UNCHANGED selectedModel
            /\ UNCHANGED apiKey
  /\ UNCHANGED <<cache, storage, isLoading, activeStreamingRef, fileErrors, storageError,
                 titles, sends, activeCache, pending, liveCaches, nextCache, ops, faults,
                 escalated>>
  /\ UNCHANGED <<scope, deleteLog, stored, inputVars, deleted>>

\* A caches.delete issued by startNewChatSession returns or throws: the handle
\* is cleared either way, and the session is created.
SessionDeleteDone(i, ok) ==
  /\ ~Busy
  /\ i \in 1..Len(pending)
  /\ LET p == pending[i] IN
       /\ p.awaiter # "cleanup"
       /\ liveCaches' = IF ok THEN liveCaches \ {p.del} ELSE liveCaches
       /\ deleteLog' = Append(deleteLog, [name |-> p.del, by |-> "session", sid |-> 0, ok |-> ok])
       /\ activeCache' = ClearedHandle(activeCache, ok)
       /\ chat' = CreateChat(p.model, Null, p.history)
       /\ pending' = RemoveAt(pending, i)
       /\ activeModel' = IF p.awaiter = "none" THEN activeModel
                         ELSE IF p.awaiter = "delete" THEN p.model
                         ELSE IF p.awaiter = "send" THEN sends[p.sid].target
                         ELSE activeModel
       /\ sends' = IF p.awaiter \in {"send", "chat"} THEN [sends EXCEPT ![p.sid].pc = "gen", ![p.sid].resumed = TRUE] ELSE sends
  /\ UNCHANGED <<cache, storage, apiKey, isInitialized, activeConversationId,
                 selectedModel, isProSession, isLoading, activeStreamingRef, fileErrors,
                 storageError, titles, mq, ai, currentModelName, nextCache, nextId, ops,
                 escalated>>
  /\ Fault(~ok)
  /\ UNCHANGED <<scope, stored, inputVars, showApiKeyModal, deleted>>

\* -------------------------------------------------------- sendMessageMutation
NewSend(conv, text, files, history) ==
  [conv |-> conv, text |-> text, files |-> files, history |-> history,
   pc |-> "onMutate", mutConv |-> Null, prev |-> <<>>, target |-> "none",
   ensure |-> FALSE, wasEscalated |-> FALSE, selected |-> "none",
   usage |-> FALSE, err |-> "none", failed |-> FALSE, fi |-> 1, cachePath |-> FALSE,
   chunks |-> 0, newCache |-> Null, del |-> Null, parts |-> <<>>,
   sessionModel |-> "none", resumed |-> FALSE, tokenAtSettle |-> Null,
   fed |-> <<>>, report |-> "none", atError |-> <<>>]

UserMessage(sid, text, files) ==
  [Msg(<<sid, "user">>, "user", <<text>>, 1) EXCEPT !.files = files]

AiMessagePlaceholder(sid) == Msg(<<sid, "ai">>, "ai", <<>>, 0)

\* The suggestion buttons of ChatMessage are rendered: the active conversation
\* shows a message that carries suggestions and has no user message.
SuggestionsShown ==
  /\ activeConversationId \in Ids(cache)
  /\ LET ms == cache[Find(cache, activeConversationId)].messages IN
       /\ \E i \in 1..Len(ms) : ms[i].suggestions
       /\ \A i \in 1..Len(ms) : ms[i].sender # "user"

\* ChatInput.handleSend lets the call through.
InputEnabled(text, files) ==
  /\ text # "blank" \/ files # <<>>
  /\ ~(isLoading \/ apiKey = NoKey)

\* A guard that lets every send through.
NeverStreaming(targetConversationId) == FALSE

\* The guard of handleSendMessage and of mutationFn.
AnotherStreaming(targetConversationId) ==
  activeStreamingRef # Null /\ activeStreamingRef # targetConversationId

\* A credential check that lets every call through.
AnyCredential == TRUE

\* if (!apiKey) { setShowApiKeyModal(true); return; }
HasCredential == apiKey # NoKey

\* handleSendMessage(text, files) with files that pass validateFiles, called
\* by ChatInput ("input") or by a suggestion button ("suggestion").
SendMessage(text, files, via) ==
  /\ ~Busy /\ Started
  /\ Input(text, files) \in scope.inputs
  /\ IF via = "input" THEN InputEnabled(text, files)
     ELSE SuggestionsShown /\ Input(text, files) \in SuggestionInputs
  /\ showApiKeyModal' = IF ~HasCredential THEN TRUE ELSE showApiKeyModal
  /\ IF ~HasCredential
     THEN UNCHANGED <<fileErrors, isLoading, activeStreamingRef, titles, sends, mq>>
     ELSE IF activeConversationId \notin Ids(cache)
     THEN /\ fileErrors' = "none"
          /\ UNCHANGED <<isLoading, activeStreamingRef, titles, sends, mq>>
     ELSE IF AnotherStreaming(activeConversationId)
     THEN /\ fileErrors' = "wait"
          /\ UNCHANGED <<isLoading, activeStreamingRef, titles, sends, mq>>
     ELSE LET target == activeConversationId
              currentConvo == cache[Find(cache, target)]
              sid == Len(sends) + 1
              isFirstUserMessage ==
                \A i \in 1..Len(currentConvo.messages) :
                   currentConvo.messages[i].sender # "user"
              updatedWithTitle ==
                SeqMap(LAMBDA c : IF c.id = target
                                  THEN [c EXCEPT !.title = "Chat with Files"] ELSE c, cache)
              titleWrite ==
                IF isFirstUserMessage /\ text = "blank"
                THEN <<Write(updatedWithTitle, "none", 0)>> ELSE <<>>
          IN  /\ Len(sends) < scope.sends
              /\ fileErrors' = "none"
              /\ titles' = IF isFirstUserMessage /\ text # "blank"
                           THEN Append(titles, target) ELSE titles
              /\ isLoading' = TRUE
              /\ activeStreamingRef' = target
              /\ sends' = Append(sends,
                    NewSend(target, text, files, mapMessagesToHistory(currentConvo.messages)))
              /\ mq' = mq \o titleWrite \o <<Chain("send", <<>>, "none", sid)>>
  /\ UNCHANGED <<cache, storage, apiKey, isInitialized, activeConversationId,
                 selectedModel, activeModel, isProSession, storageError, serviceVars,
                 nextId, ops, faults, escalated>>
  /\ UNCHANGED <<scope, deleteLog, stored, deleted>>

\* A send from the suggestion buttons, or from a ChatInput whose attached files
\* are given by what the service distinguishes.
handleSendMessage(text, files, via) ==
  /\ SendMessage(text, files, via)
  /\ UNCHANGED inputVars

\* The close button of the settings dialog.
CloseApiKeyModal ==
  /\ ~Busy
  /\ showApiKeyModal
  /\ showApiKeyModal' = FALSE
  /\ UNCHANGED <<cache, storage, appVars, transportVars, mq, nextId, ops, faults,
                 escalated>>
  /\ UNCHANGED <<scope, deleteLog, stored, inputVars, deleted>>

\* setTimeout(() => setFileErrors([]), 5000)
ClearFileErrors ==
  /\ ~Busy
  /\ fileErrors # "none"
  /\ fileErrors' = "none"
  /\ UNCHANGED <<cache, storage, apiKey, isInitialized, activeConversationId,
                 selectedModel, activeModel, isProSession, isLoading,
                 activeStreamingRef, storageError, transportVars, mq, nextId, ops, faults,
                 escalated>>
  /\ UNCHANGED <<scope, deleteLog, stored, inputVars, showApiKeyModal, deleted>>

\* No send is in the synchronous prefix of its generation call.
NoGen == \A s \in 1..Len(sends) : sends[s].pc # "gen"

\* onMutate of sendMessageMutation: the user message and the placeholder are
\* added, and the conversation moves to the front.
OptimisticAdd(previousConversations, conversationId, sid, text, files) ==
  LET idx == Find(previousConversations, conversationId)
      convo == previousConversations[idx]
      isInitialState == Len(convo.messages) > 0 /\ IsInitial(convo.messages[1])
      newMessages ==
        IF isInitialState
        THEN <<UserMessage(sid, text, files), AiMessagePlaceholder(sid)>>
        ELSE convo.messages \o <<UserMessage(sid, text, files), AiMessagePlaceholder(sid)>>
  IN  <<[convo EXCEPT !.messages = newMessages]>> \o RemoveAt(previousConversations, idx)

SendOnMutate ==
  /\ mq # <<>> /\ NoGen
  /\ mq[Turn].kind = "send" /\ mq[Turn].phase = 0
  /\ LET sid == mq[Turn].sid
         conversationId == activeConversationId
     IN  /\ sends' = [sends EXCEPT ![sid].mutConv = conversationId, ![sid].prev = cache]
         /\ cache' = IF conversationId \in Ids(cache)
                     THEN OptimisticAdd(cache, conversationId, sid, sends[sid].text,
                                        sends[sid].files)
                     ELSE cache
  /\ mq' = [mq EXCEPT ![Turn].phase = 1]
  /\ UNCHANGED <<storage, appVars, titles, serviceVars, nextId, ops, faults, escalated>>
  /\ UNCHANGED <<scope, deleteLog, stored, inputVars, showApiKeyModal, deleted>>

\* Target model resolution of mutationFn.
TargetModel(selected, shouldBeProSession) ==
  IF selected = ImageModel THEN ImageModel
  ELSE IF shouldBeProSession THEN ProModel ELSE selected

\* A mutationFn that goes on without awaiting startNewChatSession.
NotAwaited(sync) == "gen"

\* Where mutationFn goes after calling startNewChatSession: it awaits the call.
AfterEnsure(sync) == IF sync THEN "gen" ELSE "ensure"

\* mutationFn up to its first suspension.
SendMutationFn ==
  /\ mq # <<>> /\ NoGen
  /\ mq[Turn].kind = "send" /\ mq[Turn].phase = 1
  /\ LET sid == mq[Turn].sid
         s == sends[sid]
         requiresProModelNow == s.files # <<>> \/ s.text = "url"
         shouldBeProSession == isProSession \/ requiresProModelNow
         isImageModel == selectedModel = ImageModel
         targetModel == TargetModel(selectedModel, shouldBeProSession)
         ensure == ~isImageModel /\ activeModel # targetModel
         s1 == [s EXCEPT !.target = targetModel, !.ensure = ensure,
                          !.selected = selectedModel,
                          !.wasEscalated = (s.conv \in escalated)]
     IN  IF AnotherStreaming(s.conv)
         THEN /\ sends' = [sends EXCEPT ![sid].pc = "onError"]
              /\ UNCHANGED <<isProSession, activeModel, currentModelName, chat, pending,
                             escalated>>
         ELSE /\ isProSession' = shouldBeProSession
              /\ escalated' = IF requiresProModelNow THEN escalated \cup {s.conv}
                              ELSE escalated
              /\ IF ensure
                 THEN /\ StartNewChatSession(targetModel, Null, s.history, "send", sid)
                      /\ activeModel' = IF SessionIsSync(Null) THEN targetModel
                                        ELSE activeModel
                      /\ sends' = [sends EXCEPT
                                     ![sid] = [s1 EXCEPT !.pc = AfterEnsure(SessionIsSync(Null))]]
                 ELSE /\ sends' = [sends EXCEPT ![sid] = [s1 EXCEPT !.pc = "gen"]]
                      /\ UNCHANGED <<activeModel, currentModelName, chat, pending>>
  /\ mq' = RemoveAt(mq, Turn)
  /\ UNCHANGED <<cache, storage, apiKey, isInitialized, activeConversationId,
                 selectedModel, isLoading, activeStreamingRef, fileErrors, storageError,
                 titles, ai, activeCache, liveCaches, nextCache, nextId, ops, faults>>
  /\ UNCHANGED <<scope, deleteLog, stored, inputVars, showApiKeyModal, deleted>>

\* A callback of the generation call: applied only under the token check.
Guarded(convs, conv, chunk) ==
  IF activeStreamingRef = conv THEN updateStreamingMessage(convs, conv, chunk) ELSE convs

Status(convs, conv, status) ==
  Guarded(convs, conv, [NoChunk EXCEPT !.thought = <<status>>])

\* The else-branch loop of streamGeminiResponse from file fi on: files below
\* the inline threshold become inline parts; the first file above it suspends
\* the loop in an upload.  With no file left the text part is added and the
\* payload goes out on the current chat session.
RECURSIVE Attach(_, _)
Attach(s, convs) ==
  IF s.fi > Len(s.files)
  THEN [send |-> [s EXCEPT !.parts = @ \o <<"text">>, !.pc = "stream",
                           !.sessionModel = chat.model],
        convs |-> convs]
  ELSE IF s.files[s.fi].big
  THEN [send |-> [s EXCEPT !.pc = "upload"],
        convs |-> Status(convs, s.conv, "Uploading...")]
  ELSE Attach([s EXCEPT !.parts = @ \o <<"inlineData">>, !.fi = @ + 1], convs)

\* generateImage / streamGeminiResponse up to the first suspension.
SendBeginGeneration(sid) ==
  /\ sid \in 1..Len(sends)
  /\ sends[sid].pc = "gen"
  /\ LET s == sends[sid] IN
       IF ai = NoKey
       THEN /\ sends' = [sends EXCEPT ![sid].pc = "onError", ![sid].err = "generic"]
            /\ UNCHANGED <<cache, currentModelName, chat, pending>>
       ELSE IF s.target = ImageModel /\ s.selected = ImageModel
       THEN /\ sends' = [sends EXCEPT ![sid].pc = "image"]
            /\ cache' = IF s.files # <<>> THEN Status(cache, s.conv, "Processing...")
                        ELSE cache
            /\ UNCHANGED <<currentModelName, chat, pending>>
       ELSE IF chat = NoChat
       THEN /\ StartNewChatSession(currentModelName, Null, <<>>, "chat", sid)
            /\ sends' = [sends EXCEPT ![sid].pc = AfterEnsure(SessionIsSync(Null))]
            /\ UNCHANGED cache
       ELSE IF Len(s.files) = 1 /\ s.files[1].big /\ s.files[1].pdf
       THEN /\ sends' = [sends EXCEPT ![sid].pc = "upload", ![sid].cachePath = TRUE]
            /\ cache' = Status(cache, s.conv, "Uploading...")
            /\ UNCHANGED <<currentModelName, chat, pending>>
       ELSE /\ sends' = [sends EXCEPT ![sid] = Attach(s, cache).send]
            /\ cache' = Attach(s, cache).convs
            /\ UNCHANGED <<currentModelName, chat, pending>>
  /\ UNCHANGED <<storage, appVars, titles, mq, ai, activeCache, liveCaches, nextCache,
                 nextId, ops, faults, escalated>>
  /\ UNCHANGED <<scope, deleteLog, stored, inputVars, showApiKeyModal, deleted>>

\* ai.files.upload returns or throws.
UploadDone(sid, ok) ==
  /\ ~Busy
  /\ sid \in 1..Len(sends)
  /\ sends[sid].pc = "upload"
  /\ IF ok
     THEN /\ sends' = [sends EXCEPT ![sid].pc = "poll"]
          /\ cache' = Status(cache, sends[sid].conv, "Processing...")
     ELSE /\ sends' = [sends EXCEPT ![sid].pc = "onError", ![sid].err = "generic"]
          /\ UNCHANGED cache
  /\ UNCHANGED <<storage, appVars, titles, mq, serviceVars, nextId, ops, escalated>>
  /\ Fault(~ok)
  /\ UNCHANGED <<scope, deleteLog, stored, inputVars, showApiKeyModal, deleted>>

\* A poll that goes on with a file whatever its state.
PollNeverAborts(state) == FALSE

\* if (getFile.state === 'FAILED') throw new Error(`File processing failed: ...`)
PollAborts(state) == state = "FAILED"

\* The states ai.files.get reports for an uploaded file.
PollReports == {"PROCESSING", "ACTIVE", "FAILED"}

\* A poll that stops at the first report, whatever it says.
AnyReportEnds(state) == TRUE

\* while (getFile.state === 'PROCESSING') { sleep; get again }
PollEnds(state) == state # "PROCESSING"

\* ai.files.get returns a report: PROCESSING repeats the poll after the
\* interval, FAILED throws, any other state goes on with the file.
PollDone(sid, state) ==
  /\ ~Busy
  /\ sid \in 1..Len(sends)
  /\ sends[sid].pc = "poll"
  /\ LET s == [sends[sid] EXCEPT !.report = state] IN
       IF ~PollEnds(state)
       THEN /\ sends' = [sends EXCEPT ![sid] = s]
            /\ UNCHANGED cache
       ELSE IF PollAborts(state)
       THEN /\ sends' = [sends EXCEPT ![sid] = [s EXCEPT !.pc = "onError",
                                                         !.err = "processing"]]
            /\ UNCHANGED cache
       ELSE IF s.cachePath
       THEN /\ sends' = [sends EXCEPT ![sid] = [s EXCEPT !.pc = "cacheCreate"]]
            /\ cache' = Status(cache, s.conv, "Creating context cache for PDF...")
       ELSE LET r == Attach([s EXCEPT !.parts = @ \o <<"fileData">>, !.fi = @ + 1],
                            Status(cache, s.conv, "processed.")) IN
            /\ sends' = [sends EXCEPT ![sid] = r.send]
            /\ cache' = r.convs
  /\ UNCHANGED <<storage, appVars, titles, mq, serviceVars, nextId, ops, escalated>>
  /\ Fault(state = "FAILED")
  /\ UNCHANGED <<scope, deleteLog, stored, inputVars, showApiKeyModal, deleted>>

\* ai.files.get throws: the exception leaves the loop and the generation call.
PollThrows(sid) ==
  /\ ~Busy
  /\ sid \in 1..Len(sends)
  /\ sends[sid].pc = "poll"
  /\ sends' = [sends EXCEPT ![sid].pc = "onError", ![sid].err = "generic",
                             ![sid].report = "thrown"]
  /\ UNCHANGED <<cache, storage, appVars, titles, mq, serviceVars, nextId, ops,
                 escalated>>
  /\ Fault(TRUE)
  /\ UNCHANGED <<scope, deleteLog, stored, inputVars, showApiKeyModal, deleted>>

\* An installation that sends the document again with the text.
InstallCacheResend(sid, s, cacheName) ==
  /\ activeCache' = cacheName
  /\ chat' = CreateChat(currentModelName, cacheName, <<>>)
  /\ cache' = Status(cache, s.conv, "Starting new cached session...")
  /\ sends' = [sends EXCEPT ![sid] =
                 [s EXCEPT !.parts = <<"fileData", "text">>, !.pc = "stream",
                           !.sessionModel = ActualModelName(currentModelName)]]

\* The new cache becomes the active one, a session bound to it is started and
\* the text part is sent on it.
InstallCache(sid, s, cacheName) ==
  /\ activeCache' = cacheName
  /\ chat' = CreateChat(currentModelName, cacheName, <<>>)
  /\ cache' = Status(cache, s.conv, "Starting new cached session...")
  /\ sends' = [sends EXCEPT ![sid] =
                 [s EXCEPT !.parts = <<"text">>, !.pc = "stream",
                           !.sessionModel = ActualModelName(currentModelName)]]

\* ai.caches.create returns or throws.
CacheCreateDone(sid, ok) ==
  /\ ~Busy
  /\ sid \in 1..Len(sends)
  /\ sends[sid].pc = "cacheCreate"
  /\ LET s == sends[sid] IN
       IF ~ok
       THEN /\ sends' = [sends EXCEPT ![sid].pc = "onError", ![sid].err = "generic"]
            /\ UNCHANGED <<cache, activeCache, chat, liveCaches, nextCache>>
       ELSE /\ nextCache <= MaxCaches
            /\ liveCaches' = liveCaches \cup {nextCache}
            /\ nextCache' = nextCache + 1
            /\ IF activeCache # Null
               THEN /\ sends' = [sends EXCEPT ![sid].pc = "cacheDelete",
                                              ![sid].newCache = nextCache,
                                              ![sid].del = activeCache]
                    /\ UNCHANGED <<cache, activeCache, chat>>
               ELSE InstallCache(sid, [s EXCEPT !.newCache = nextCache], nextCache)
  /\ UNCHANGED <<storage, appVars, titles, mq, ai, currentModelName, pending, nextId, ops,
                 escalated>>
  /\ Fault(~ok)
  /\ UNCHANGED <<scope, deleteLog, stored, inputVars, showApiKeyModal, deleted>>

\* The caches.delete of the superseded cache returns or throws.
CacheDeleteDone(sid, ok) ==
  /\ ~Busy
  /\ sid \in 1..Len(sends)
  /\ sends[sid].pc = "cacheDelete"
  /\ liveCaches' = IF ok THEN liveCaches \ {sends[sid].del} ELSE liveCaches
  /\ deleteLog' = Append(deleteLog, [name |-> sends[sid].del, by |-> "send", sid |-> sid, ok |-> ok])
  /\ IF Swallowed(ok)
     THEN InstallCache(sid, sends[sid], sends[sid].newCache)
     ELSE /\ sends' = [sends EXCEPT ![sid].pc = "onError", ![sid].err = "generic"]
          /\ UNCHANGED <<cache, activeCache, chat>>
  /\ UNCHANGED <<storage, appVars, titles, mq, ai, currentModelName, pending, nextCache,
                 nextId, ops, escalated>>
  /\ Fault(~ok)
  /\ UNCHANGED <<scope, stored, inputVars, showApiKeyModal, deleted>>

\* The text of the parts, joined in part order.
RECURSIVE JoinText(_)
JoinText(parts) ==
  IF parts = <<>> THEN <<>> ELSE <<Head(parts).text>> \o JoinText(Tail(parts))

\* sources.push(...) unless an entry of the chunk already has the URI.
RECURSIVE PushSources(_, _)
PushSources(sources, found) ==
  IF found = <<>> THEN sources
  ELSE PushSources(IF HasUri(sources, Head(found).uri) THEN sources
                   ELSE Append(sources, Head(found)),
                   Tail(found))

\* The citations streamGeminiResponse collects from one chunk: the retrieved
\* URLs (titled by the URL), then the grounding chunks.
ExtractSources(raw) ==
  PushSources(PushSources(<<>>, SeqMap(LAMBDA u : Source(u, u, Null), raw.urls)),
              raw.grounding)

\* The onChunk calls streamGeminiResponse makes for one chunk, in order: one
\* per thought part, one for the joined text parts, one for the citations.
OnChunkCalls(raw) ==
  LET text == JoinText(SelectSeq(raw.parts, LAMBDA p : ~p.thought))
      sources == ExtractSources(raw)
  IN  SeqMap(LAMBDA p : [NoChunk EXCEPT !.thought = <<p.text>>],
             SelectSeq(raw.parts, LAMBDA p : p.thought))
      \o (IF text # <<>> THEN <<[NoChunk EXCEPT !.text = text]>> ELSE <<>>)
      \o (IF sources # <<>> THEN <<[NoChunk EXCEPT !.sources = sources]>> ELSE <<>>)

\* The onChunk callback of mutationFn, once per call.
RECURSIVE FoldCalls(_, _, _)
FoldCalls(convs, conv, calls) ==
  IF calls = <<>> THEN convs
  ELSE FoldCalls(Guarded(convs, conv, Head(calls)), conv, Tail(calls))

StreamChunk(sid, chunk) ==
  /\ ~Busy
  /\ sid \in 1..Len(sends)
  /\ sends[sid].pc = "stream"
  /\ sends[sid].chunks < scope.chunks
  /\ chunk \in scope.raw
  /\ sends' = [sends EXCEPT ![sid].chunks = @ + 1,
                             ![sid].fed = IF activeStreamingRef = sends[sid].conv
                                          THEN @ \o OnChunkCalls(chunk) ELSE @]
  /\ cache' = FoldCalls(cache, sends[sid].conv, OnChunkCalls(chunk))
  /\ UNCHANGED <<storage, appVars, titles, mq, serviceVars, nextId, ops, faults, escalated>>
  /\ UNCHANGED <<scope, deleteLog, stored, inputVars, showApiKeyModal, deleted>>

\* The stream ends; usage says whether a chunk carried usage metadata.
StreamEnd(sid, usage) ==
  /\ ~Busy
  /\ sid \in 1..Len(sends)
  /\ sends[sid].pc = "stream"
  /\ sends' = [sends EXCEPT ![sid].pc = "onSuccess", ![sid].usage = usage]
  /\ UNCHANGED <<cache, storage, appVars, titles, mq, serviceVars, nextId, ops,
                 escalated>>
  /\ Fault(~usage)
  /\ UNCHANGED <<scope, deleteLog, stored, inputVars, showApiKeyModal, deleted>>

\* sendMessageStream or the stream throws.
StreamFail(sid, kind) ==
  /\ ~Busy
  /\ sid \in 1..Len(sends)
  /\ sends[sid].pc = "stream"
  /\ sends' = [sends EXCEPT ![sid].pc = "onError", ![sid].err = kind]
  /\ UNCHANGED <<cache, storage, appVars, titles, mq, serviceVars, nextId, ops,
                 escalated>>
  /\ Fault(TRUE)
  /\ UNCHANGED <<scope, deleteLog, stored, inputVars, showApiKeyModal, deleted>>

\* generateImage returns n images.
ImageDone(sid, n, usage) ==
  /\ ~Busy
  /\ sid \in 1..Len(sends)
  /\ sends[sid].pc = "image"
  /\ sends' = [sends EXCEPT ![sid].pc = "onSuccess", ![sid].usage = usage]
  /\ cache' = updateStreamingMessage(cache, sends[sid].conv,
                 IF n > 0
                 THEN [NoChunk EXCEPT !.generatedImages = <<"img">>, !.text = ImagesOk]
                 ELSE [NoChunk EXCEPT !.text = ImagesNone])
  /\ UNCHANGED <<storage, appVars, titles, mq, serviceVars, nextId, ops, escalated>>
  /\ Fault(n = 0 \/ ~usage)
  /\ UNCHANGED <<scope, deleteLog, stored, inputVars, showApiKeyModal, deleted>>

ImageFail(sid) ==
  /\ ~Busy
  /\ sid \in 1..Len(sends)
  /\ sends[sid].pc = "image"
  /\ sends' = [sends EXCEPT ![sid].pc = "onError", ![sid].err = "generic"]
  /\ UNCHANGED <<cache, storage, appVars, titles, mq, serviceVars, nextId, ops,
                 escalated>>
  /\ Fault(TRUE)
  /\ UNCHANGED <<scope, deleteLog, stored, inputVars, showApiKeyModal, deleted>>

\* The finalization of onSuccess.
Finalize(convs, conversationId, usage) ==
  SeqMap(LAMBDA convo :
           IF convo.id = conversationId
           THEN [convo EXCEPT !.messages =
                   SeqMap(LAMBDA m : IF IsStreaming(m)
                                     THEN [m EXCEPT !.usageMetadata = usage,
                                                    !.thinkingTime = TRUE,
                                                    !.timestamp = 1]
                                     ELSE m, @)]
           ELSE convo,
         convs)

SendOnSuccess(sid) ==
  /\ mq = <<>>
  /\ sid \in 1..Len(sends)
  /\ sends[sid].pc = "onSuccess"
  /\ LET s == sends[sid] IN
       IF s.mutConv # Null /\ s.usage /\ s.conv = s.mutConv
       THEN /\ mq' = <<Write(Finalize(cache, s.mutConv, s.usage), "sendSuccess", sid)>>
            /\ sends' = [sends EXCEPT ![sid].pc = "awaitWrite"]
       ELSE /\ sends' = [sends EXCEPT ![sid].pc = "onSettled"]
            /\ UNCHANGED mq
  /\ UNCHANGED <<cache, storage, appVars, titles, serviceVars, nextId, ops, faults,
                 escalated>>
  /\ UNCHANGED <<scope, deleteLog, stored, inputVars, showApiKeyModal, deleted>>

ErrorMessage(err) == IF err = "key" THEN ErrKey ELSE ErrGeneric

\* The error resolution of onError.
ResolveError(convs, conversationId, err) ==
  SeqMap(LAMBDA convo :
           IF convo.id = conversationId
           THEN [convo EXCEPT !.messages =
                   SeqMap(LAMBDA m : IF IsStreaming(m)
                                     THEN [m EXCEPT !.thoughts = <<>>,
                                                    !.text = ErrorMessage(err),
                                                    !.timestamp = 1]
                                     ELSE m, @)]
           ELSE convo,
         convs)

\* onError: the rollback to the snapshot of onMutate, then the error resolution
\* of what getQueryData returns after it.
SendOnError(sid) ==
  /\ mq = <<>>
  /\ sid \in 1..Len(sends)
  /\ sends[sid].pc = "onError"
  /\ LET s == sends[sid] IN
       /\ cache' = s.prev
       /\ IF s.mutConv # Null
          THEN /\ mq' = <<Write(ResolveError(s.prev, s.mutConv, s.err), "sendError", sid)>>
               /\ sends' = [sends EXCEPT ![sid].pc = "awaitWrite", ![sid].failed = TRUE,
                                          ![sid].atError = cache]
          ELSE /\ sends' = [sends EXCEPT ![sid].pc = "onSettled", ![sid].failed = TRUE,
                                          ![sid].atError = cache]
               /\ UNCHANGED mq
  /\ UNCHANGED <<storage, appVars, titles, serviceVars, nextId, ops, faults, escalated>>
  /\ UNCHANGED <<scope, deleteLog, stored, inputVars, showApiKeyModal, deleted>>

\* An onSettled that never releases the token.
KeepToken(token, conversationId) == token

\* The token after onSettled.
ReleaseToken(token, conversationId) ==
  IF conversationId # Null /\ token = conversationId THEN Null ELSE token

SendOnSettled(sid) ==
  /\ mq = <<>>
  /\ sid \in 1..Len(sends)
  /\ sends[sid].pc = "onSettled"
  /\ activeStreamingRef' = ReleaseToken(activeStreamingRef, sends[sid].mutConv)
  /\ isLoading' = FALSE
  /\ sends' = [sends EXCEPT ![sid].pc = "done", ![sid].prev = <<>>,
                             ![sid].history = <<>>, ![sid].parts = <<>>,
                             ![sid].tokenAtSettle = activeStreamingRef,
                             ![sid].fed = <<>>, ![sid].atError = <<>>]
  /\ UNCHANGED <<cache, storage, apiKey, isInitialized, activeConversationId,
                 selectedModel, activeModel, isProSession, fileErrors, storageError,
                 titles, mq, serviceVars, nextId, ops, faults, escalated>>
  /\ UNCHANGED <<scope, deleteLog, stored, inputVars, showApiKeyModal, deleted>>

\* ------------------------------------------------------ generateChatTitleMutation
\* generateChatTitle returns: onSuccess saves the title into the conversations
\* of the current render.  It throws: onError only logs.
TitleDone(i, ok) ==
  /\ ~Busy /\ scope.titles
  /\ i \in 1..Len(titles)
  /\ titles' = RemoveAt(titles, i)
  /\ mq' = IF ok
           THEN <<Write(SeqMap(LAMBDA c : IF c.id = titles[i]
                                          THEN [c EXCEPT !.title = "Generated"] ELSE c,
                               cache), "title", 0)>>
           ELSE mq
  /\ UNCHANGED <<cache, storage, appVars, sends, serviceVars, nextId, ops,
                 escalated>>
  /\ Fault(~ok)
  /\ UNCHANGED <<scope, deleteLog, stored, inputVars, showApiKeyModal, deleted>>

Next ==
  \/ UpdateOnMutate
  \/ UpdateSave
  \/ UpdateSettle
  \/ ClearStorageError
  \/ ClearFileErrors
  \/ CloseApiKeyModal
  \/ handleNewChat
  \/ \E id \in 1..MaxConvs : handleSelectConversation(id)
  \/ \E m \in ModelChoices : handleModelChange(m)
  \/ \E id \in 1..MaxConvs : handleDeleteConversation(id)
  \/ initializeApp
  \/ \E i \in 1..(MaxSends + MaxOps), ok \in BOOLEAN : SessionDeleteDone(i, ok)
  \/ \E text \in Texts, files \in FileSets, via \in {"input", "suggestion"} :
       handleSendMessage(text, files, via)
  \/ SendOnMutate
  \/ SendMutationFn
  \/ \E sid \in 1..MaxSends : SendBeginGeneration(sid)
  \/ \E sid \in 1..MaxSends, ok \in BOOLEAN : UploadDone(sid, ok)
  \/ \E sid \in 1..MaxSends, state \in PollReports : PollDone(sid, state)
  \/ \E sid \in 1..MaxSends : PollThrows(sid)
  \/ \E sid \in 1..MaxSends, ok \in BOOLEAN : CacheCreateDone(sid, ok)
  \/ \E sid \in 1..MaxSends, ok \in BOOLEAN : CacheDeleteDone(sid, ok)
  \/ \E sid \in 1..MaxSends, chunk \in ChunkInputs : StreamChunk(sid, chunk)
  \/ \E sid \in 1..MaxSends, usage \in BOOLEAN : StreamEnd(sid, usage)
  \/ \E sid \in 1..MaxSends, kind \in {"generic", "key"} : StreamFail(sid, kind)
  \/ \E sid \in 1..MaxSends, n \in 0..1, usage \in BOOLEAN : ImageDone(sid, n, usage)
  \/ \E sid \in 1..MaxSends : ImageFail(sid)
  \/ \E sid \in 1..MaxSends : SendOnSuccess(sid)
  \/ \E sid \in 1..MaxSends : SendOnError(sid)
  \/ \E sid \in 1..MaxSends : SendOnSettled(sid)
  \/ \E i \in 1..MaxSends, ok \in BOOLEAN : TitleDone(i, ok)

Spec == Init /\ [][Next]_vars

\* ------------------------------------------------------------------ claims
\* The generation call of a send is running: started and not yet settled.
GenPcs == {"upload", "poll", "cacheCreate", "cacheDelete", "stream", "image"}

\* The placeholder a send added, where conversation list convs holds it.
Placeholders(convs, sid) ==
  {m \in UNION {{c.messages[j] : j \in 1..Len(c.messages)} :
                 c \in {convs[i] : i \in 1..Len(convs)}} : m.id = <<sid, "ai">>}

StreamingIn(c) == {j \in 1..Len(c.messages) : IsStreaming(c.messages[j])}

\* C1: every conversation holds at most one message with sender ai and an
\* empty completion timestamp.
C1_OnePlaceholder ==
  \A i \in 1..Len(cache) : Cardinality(StreamingIn(cache[i])) <= 1

\* C2: no two sends on one conversation have their generation calls running
\* at the same time.
C2_OneGeneration ==
  \A s1, s2 \in 1..Len(sends) :
     (s1 # s2 /\ sends[s1].conv = sends[s2].conv)
        => ~(sends[s1].pc \in GenPcs /\ sends[s2].pc \in GenPcs)

\* C3: a handleSendMessage call made while the token holds a conversation
\* other than the active one starts no send, makes no transport call and
\* leaves the token, the conversation list and the loading flag alone.
C3_RejectedWithoutTransport ==
  [][ ( /\ activeStreamingRef # Null
        /\ activeStreamingRef # activeConversationId
        /\ \E text \in Texts, files \in FileSets, via \in {"input", "suggestion"} :
              handleSendMessage(text, files, via) )
      => ( /\ activeStreamingRef' = activeStreamingRef
           /\ UNCHANGED transportVars
           /\ UNCHANGED <<cache, storage, mq, isLoading>> ) ]_vars

\* A send was rejected because another conversation streams.
C3_Witness ==
  /\ fileErrors = "wait"
  /\ activeStreamingRef # Null
  /\ activeStreamingRef # activeConversationId
  /\ activeConversationId \in Ids(cache)

\* The placeholder of send sid is in convs as a final error-state message.
ErrorResolved(convs, sid) ==
  \E m \in Placeholders(convs, sid) :
     /\ m.text = ErrorMessage(sends[sid].err)
     /\ m.thoughts = <<>>
     /\ m.timestamp # 0

\* C4: when onError of a send whose generation call failed has run, the
\* placeholder is in the conversation list and in the store as an error-state
\* message: the error text, no reasoning trace, a completion timestamp.
C4_ErrorStateWritten ==
  \A sid \in 1..Len(sends) :
     ( /\ sends[sid].pc = "onSettled"
       /\ sends[sid].err # "none"
       /\ sends[sid].conv \in Ids(cache) )
     => ErrorResolved(cache, sid) /\ ErrorResolved(storage, sid)

\* The placeholder of send sid is in convs with a completion timestamp and the
\* elapsed time.
Finalized(convs, sid) ==
  \E m \in Placeholders(convs, sid) : m.timestamp # 0 /\ m.thinkingTime

\* C5: when onSuccess of a send has run, the placeholder is final in the
\* conversation list and in the store.
C5_FinalizedAndStored ==
  \A sid \in 1..Len(sends) :
     ( /\ sends[sid].pc = "onSettled"
       /\ ~sends[sid].failed
       /\ sends[sid].conv \in Ids(cache) )
     => Finalized(cache, sid) /\ Finalized(storage, sid)

\* A step of the generation call of send sid.
GenerationStep(sid) ==
  \/ SendBeginGeneration(sid)
  \/ \E ok \in BOOLEAN : UploadDone(sid, ok)
  \/ \E state \in {"ACTIVE", "FAILED"} : PollDone(sid, state)
  \/ \E ok \in BOOLEAN : CacheCreateDone(sid, ok)
  \/ \E ok \in BOOLEAN : CacheDeleteDone(sid, ok)
  \/ \E chunk \in ChunkInputs : StreamChunk(sid, chunk)
  \/ \E n \in 0..1, usage \in BOOLEAN : ImageDone(sid, n, usage)

\* C6: a step of the generation call of a send taken while the token is not
\* that send's conversation leaves the conversation list as it is.
C6_UpdatesUnderToken ==
  [][ \A sid \in 1..Len(sends) :
        (GenerationStep(sid) /\ activeStreamingRef # sends[sid].conv)
           => cache' = cache ]_vars

\* C7: onSettled of a send clears the token when it is that send's
\* conversation and leaves it alone otherwise.
C7_ReleaseIffOwn ==
  [][ \A sid \in 1..Len(sends) :
        SendOnSettled(sid)
           => activeStreamingRef' = IF activeStreamingRef = sends[sid].conv
                                    THEN Null ELSE activeStreamingRef ]_vars

\* A send has settled while the token held another conversation.
C7_Witness ==
  \E sid \in 1..Len(sends) :
     /\ sends[sid].pc = "done"
     /\ sends[sid].tokenAtSettle \notin {Null, sends[sid].conv}
     /\ activeStreamingRef = sends[sid].tokenAtSettle

\* C8: while the generation call of a send that had to switch the session
\* model runs, no startNewChatSession call made for that send is unresolved.
C8_SessionBeforeStream ==
  \A sid \in 1..Len(sends) :
     (sends[sid].ensure /\ sends[sid].pc \in GenPcs)
        => \A i \in 1..Len(pending) :
              ~(pending[i].awaiter = "send" /\ pending[i].sid = sid)

\* A send streams after waiting for the backend to resolve its session switch.
C8_Witness ==
  \E sid \in 1..Len(sends) :
     sends[sid].ensure /\ sends[sid].resumed /\ sends[sid].pc = "stream"

\* C9: a send without files or URL on a conversation that an earlier send
\* escalated resolves to the escalated model, unless the image model is
\* selected.
C9_StickyEscalation ==
  \A sid \in 1..Len(sends) :
     ( /\ sends[sid].target # "none"
       /\ sends[sid].wasEscalated
       /\ sends[sid].files = <<>> /\ sends[sid].text # "url"
       /\ sends[sid].selected # ImageModel )
     => sends[sid].target = ProModel

\* C10: the onError of a failed write leaves the conversation list equal to
\* what it was immediately before the optimistic set of that write.
C10_RollbackToSnapshot ==
  [][ (UpdateSettle /\ ~mq[Turn].ok) => cache' = mq[Turn].before ]_vars

\* A write failed and was rolled back.
C10_Witness == storageError /\ faults > 0

IsPrefix(a, b) == Len(a) <= Len(b) /\ SubSeq(b, 1, Len(a)) = a

Citations(m) == {m.sources[i] : i \in 1..Len(m.sources)}

\* C11: while a send has not settled, a step that leaves its placeholder in
\* the conversation list with an empty timestamp keeps every citation of the
\* placeholder and keeps its reasoning trace as a prefix of the new one.
C11_AppendOnly ==
  [][ \A sid \in 1..Len(sends) :
        \A m \in Placeholders(cache, sid) :
           \A n \in Placeholders(cache', sid) :
              (sends[sid].pc # "done" /\ IsStreaming(m) /\ IsStreaming(n))
                 => /\ IsPrefix(m.thoughts, n.thoughts)
                    /\ Citations(m) \subseteq Citations(n) ]_vars

AllMessages(convs) ==
  UNION {{convs[i].messages[j] : j \in 1..Len(convs[i].messages)} : i \in 1..Len(convs)}

\* C12: no message of the conversation list holds two citations with the
\* same URI.
C12_CitationsUnique ==
  \A m \in AllMessages(cache) :
     \A i, j \in 1..Len(m.sources) : i # j => m.sources[i].uri # m.sources[j].uri

\* Two onChunk calls of one stream carried a citation of u1, and the
\* placeholder holds it once.
C12_Witness ==
  \E sid \in 1..Len(sends) :
     /\ sends[sid].pc = "stream"
     /\ \E i, j \in 1..Len(sends[sid].fed) :
           /\ i < j
           /\ HasUri(sends[sid].fed[i].sources, "u1")
           /\ HasUri(sends[sid].fed[j].sources, "u1")
     /\ \E m \in Placeholders(cache, sid) :
           Cardinality({k \in 1..Len(m.sources) : m.sources[k].uri = "u1"}) = 1

\* The text fragments, and the reasoning fragments, of a sequence of onChunk
\* calls, each in call order.
RECURSIVE TextOf(_)
TextOf(calls) == IF calls = <<>> THEN <<>> ELSE Head(calls).text \o TextOf(Tail(calls))

RECURSIVE ThoughtsOf(_)
ThoughtsOf(calls) ==
  IF calls = <<>> THEN <<>> ELSE Head(calls).thought \o ThoughtsOf(Tail(calls))

\* C13: while the only send of a conversation streams a text-only message,
\* the text of its placeholder is the text fragments folded so far in arrival
\* order, and its reasoning trace is the reasoning fragments folded so far in
\* arrival order.
C13_FoldInArrivalOrder ==
  \A sid \in 1..Len(sends) :
     ( /\ sends[sid].pc \in {"stream", "onSuccess"}
       /\ sends[sid].files = <<>>
       /\ sends[sid].selected # ImageModel
       /\ \A s2 \in 1..Len(sends) : s2 # sid => sends[s2].conv # sends[sid].conv )
     => \A m \in Placeholders(cache, sid) :
           /\ m.text = TextOf(sends[sid].fed)
           /\ m.thoughts = ThoughtsOf(sends[sid].fed)

\* The chunks text "Hel", text "lo", thought "thinking", text "!" were folded.
C13_Witness ==
  \E sid \in 1..Len(sends) :
     /\ sends[sid].fed = << [NoChunk EXCEPT !.text = <<"Hel">>],
                            [NoChunk EXCEPT !.text = <<"lo">>],
                            [NoChunk EXCEPT !.thought = <<"thinking">>],
                            [NoChunk EXCEPT !.text = <<"!">>] >>
     /\ \E m \in Placeholders(cache, sid) :
           m.text = <<"Hel", "lo", "!">> /\ m.thoughts = <<"thinking">>

\* The chunks mutationFn hands to updateStreamingMessage.
PatchChunks ==
  UNION {{OnChunkCalls(raw)[i] : i \in 1..Len(OnChunkCalls(raw))} : raw \in ChunkInputs}
  \cup {[NoChunk EXCEPT !.generatedImages = <<"img">>, !.text = ImagesOk],
        [NoChunk EXCEPT !.text = ImagesNone]}

\* Conversation id is in convs and holds a message with an empty timestamp.
HasTarget(convs, id) ==
  \E i \in 1..Len(convs) : convs[i].id = id /\ StreamingIn(convs[i]) # {}

\* C14: updateStreamingMessage applied to the conversation list for a
\* conversation that is not in it, or that holds no message with an empty
\* timestamp, returns the list unchanged, whatever the chunk.
C14_MissingTargetNoOp ==
  \A id \in 1..nextId : \A chunk \in PatchChunks :
     ~HasTarget(cache, id) => updateStreamingMessage(cache, id, chunk) = cache

\* An image result was patched into a conversation that was gone or held no
\* placeholder.
C14_Witness ==
  \E sid \in 1..Len(sends) :
     /\ sends[sid].pc = "onSuccess"
     /\ sends[sid].selected = ImageModel
     /\ ~HasTarget(cache, sends[sid].conv)

\* The caches.delete calls the generation call of send sid has made, in log.
SendDeletes(log, sid) ==
  {i \in 1..Len(log) : log[i].by = "send" /\ log[i].sid = sid}

\* C15: a send whose new cache is created while a handle is held requests
\* the deletion of the held cache; when that deletion returns or throws the
\* send has made that one deletion call and no other, the new cache is the
\* handle, and the send goes on to stream.
C15_Supersession ==
  [][ \A sid \in 1..Len(sends) :
        /\ (CacheCreateDone(sid, TRUE) /\ activeCache # Null)
              => /\ sends'[sid].pc = "cacheDelete"
                 /\ sends'[sid].del = activeCache
                 /\ SendDeletes(deleteLog', sid) = {}
        /\ \A ok \in BOOLEAN :
              CacheDeleteDone(sid, ok)
                 => /\ Cardinality(SendDeletes(deleteLog', sid)) = 1
                    /\ \A i \in SendDeletes(deleteLog', sid) :
                          deleteLog'[i].name = sends[sid].del
                    /\ activeCache' = sends[sid].newCache
                    /\ sends'[sid].pc = "stream" ]_vars

\* A send streams on its new cache after the deletion of the old one threw.
C15_Witness ==
  \E sid \in 1..Len(sends) :
     /\ sends[sid].pc = "stream"
     /\ activeCache = sends[sid].newCache
     /\ \E i \in SendDeletes(deleteLog, sid) :
           deleteLog[i].name = sends[sid].del /\ ~deleteLog[i].ok

\* Caches whose deletion has been requested and has not returned.
BeingDeleted ==
  {sends[s].del : s \in {t \in 1..Len(sends) : sends[t].pc = "cacheDelete"}}
  \cup {pending[i].del : i \in 1..Len(pending)}

\* C16: at most one cache exists that was created and neither deleted nor in
\* the course of being deleted.
C16_OneCache == Cardinality(liveCaches \ BeingDeleted) <= 1

\* C17: when the caches.delete that startNewChatSession issued returns or
\* throws, that one call is logged for the cache that was active, the handle
\* is empty and the new session exists; and a cache created while the handle
\* is empty becomes the handle.
C17_SessionAfterDelete ==
  [][ /\ \A i \in 1..Len(pending) : \A ok \in BOOLEAN :
            SessionDeleteDone(i, ok)
               => /\ deleteLog' = Append(deleteLog, [name |-> pending[i].del,
                                                     by |-> "session", sid |-> 0,
                                                     ok |-> ok])
                  /\ activeCache' = Null
                  /\ chat' = CreateChat(pending[i].model, Null, pending[i].history)
      /\ \A sid \in 1..Len(sends) :
            (CacheCreateDone(sid, TRUE) /\ activeCache = Null)
               => activeCache' = nextCache /\ sends'[sid].pc = "stream" ]_vars

\* A deletion issued by startNewChatSession threw, and a cache created later
\* is the handle.
C17_Witness ==
  \E i \in 1..Len(deleteLog) :
     /\ deleteLog[i].by = "session" /\ ~deleteLog[i].ok
     /\ activeCache # Null /\ activeCache > deleteLog[i].name
     /\ chat.cachedContent = activeCache

\* ------------------------------------------------------- cleanupActiveCache
\* cleanupActiveCache is exported by geminiService and called by no
\* component; it is explored from the states the service can be left in.
CleanupInit ==
  /\ Mounted
  /\ cache = <<>> /\ storage = <<>> /\ stored = "none"
  /\ ai \in {NoKey, Key1}
  /\ apiKey = ai
  /\ activeCache \in {Null} \cup 1..MaxCaches
  /\ ai = NoKey => activeCache = Null
  /\ chat = IF ai = NoKey THEN NoChat ELSE CreateChat(ProModel, activeCache, <<>>)
  /\ currentModelName = ProModel
  /\ pending = <<>>
  /\ liveCaches \in SUBSET (1..MaxCaches)
  /\ nextCache = MaxCaches + 1
  /\ deleteLog = <<>>
  /\ scope = Scope(0, MaxOps, MaxFaults, {}, 0, {}, FALSE)

\* A guard that looks at the client only.
CleanupAlways == ai # NoKey

\* if (!ai || !activeCache) return
CleanupNeeded == ai # NoKey /\ activeCache # Null

\* A call of cleanupActiveCache, up to its await.
cleanupActiveCache ==
  /\ ops < scope.ops
  /\ ops' = ops + 1
  /\ pending' = IF CleanupNeeded
                THEN Append(pending, [model |-> "none", history |-> <<>>,
                                      del |-> activeCache, awaiter |-> "cleanup",
                                      sid |-> 0])
                ELSE pending
  /\ UNCHANGED <<cache, storage, appVars, titles, sends, mq, ai, chat, activeCache,
                 currentModelName, liveCaches, nextCache, nextId, faults, escalated>>
  /\ UNCHANGED <<scope, deleteLog, stored, inputVars, showApiKeyModal, deleted>>

\* The caches.delete of cleanupActiveCache returns, or throws (as it does for
\* a cache the backend no longer has); the finally clears the handle.
CleanupDeleteDone(i, ok) ==
  /\ i \in 1..Len(pending)
  /\ pending[i].awaiter = "cleanup"
  /\ ok => pending[i].del \in liveCaches
  /\ liveCaches' = IF ok THEN liveCaches \ {pending[i].del} ELSE liveCaches
  /\ deleteLog' = Append(deleteLog, [name |-> pending[i].del, by |-> "cleanup",
                                     sid |-> 0, ok |-> ok])
  /\ activeCache' = ClearedHandle(activeCache, ok)
  /\ pending' = RemoveAt(pending, i)
  /\ UNCHANGED <<cache, storage, appVars, titles, sends, mq, ai, chat,
                 currentModelName, nextCache, nextId, ops, faults, escalated>>
  /\ UNCHANGED <<scope, stored, inputVars, showApiKeyModal, deleted>>

CleanupNext ==
  \/ cleanupActiveCache
  \/ \E i \in 1..MaxOps, ok \in BOOLEAN : CleanupDeleteDone(i, ok)

CleanupSpec == CleanupInit /\ [][CleanupNext]_vars

\* C18: when the deletion of cleanupActiveCache returns or throws the handle
\* is empty, and a call made while the handle is empty issues no deletion and
\* changes nothing of the service.
C18_CleanupIdempotent ==
  [][ /\ \A i \in 1..Len(pending) : \A ok \in BOOLEAN :
            CleanupDeleteDone(i, ok) => activeCache' = Null
      /\ (cleanupActiveCache /\ activeCache = Null)
            => UNCHANGED <<serviceVars, deleteLog>> ]_vars

\* cleanupActiveCache was called again after its deletion had thrown, and the
\* second call issued no deletion.
C18_Witness ==
  /\ ops >= 2
  /\ pending = <<>>
  /\ Len(deleteLog) = 1
  /\ deleteLog[1].by = "cleanup" /\ ~deleteLog[1].ok
  /\ activeCache = Null

\* ------------------------------------------------- the 'chatHistory' record
\* Object.keys(MODELS)
ModelIds == {ProModel, FlashModel, LiteModel, MapsModel, ImageModel}

\* What a 'chatHistory' record can hold that saveConversations did not write:
\* text JSON.parse rejects, JSON that is not an array, an array with a null
\* element, an array with a number for an element.
CorruptKinds == {"unparseable", "notarray", "nullitem", "junkitem"}

Conversation(id, title, model, messages) ==
  [id |-> id, title |-> title, messages |-> messages, model |-> model]

\* The defaults fetchConversations fills in for one parsed conversation.
CoerceConversation(convo) ==
  [convo EXCEPT !.model = IF @ \in ModelIds THEN @ ELSE ProModel,
                !.id = IF @ = Null THEN nextId ELSE @,
                !.title = IF @ = "" THEN "Untitled Chat" ELSE @]

\* What fetchConversations returns for a record of this kind and content.
fetchConversations(kind, content) ==
  IF kind = "list" THEN SeqMap(CoerceConversation, content)
  ELSE IF kind = "junkitem"
  THEN <<Conversation(nextId, "Untitled Chat", ProModel, <<>>)>>
  ELSE <<>>

\* fetchConversations removes the record: the catch of a JSON.parse or map
\* that threw.
FetchErases(kind) == kind \in {"unparseable", "nullitem"}

\* The page loads: the query runs fetchConversations.
LoadConversations ==
  /\ ~Busy
  /\ ops < scope.ops
  /\ ops' = ops + 1
  /\ cache' = fetchConversations(stored, storage)
  /\ stored' = IF FetchErases(stored) THEN "none" ELSE stored
  /\ storageError' = FALSE
  /\ UNCHANGED <<storage, apiKey, isInitialized, activeConversationId, selectedModel,
                 activeModel, isProSession, isLoading, activeStreamingRef, fileErrors,
                 transportVars, mq, nextId, faults, escalated>>
  /\ UNCHANGED <<scope, deleteLog, inputVars, showApiKeyModal, deleted>>

\* Messages and lists handed to saveConversations.
Asked == Msg(<<1, "user">>, "user", <<"plain">>, 1)
Answered == Msg(<<1, "ai">>, "ai", <<"Hel", "lo">>, 1)
Drawn == [Msg(<<1, "ai">>, "ai", ImagesOk, 1) EXCEPT !.generatedImages = <<"img">>]
Drawing == [Msg(<<1, "ai">>, "ai", <<>>, 0) EXCEPT !.generatedImages = <<"img">>]

StoreLists ==
  {<<>>}
  \cup {<<Conversation(1, "T", model, messages)>> :
          model \in {ProModel, ImageModel},
          messages \in {<<Asked, Answered>>, <<Asked, Drawn>>, <<Asked, Drawing>>}}
  \cup {<<Conversation(2, "New Chat", ProModel, createInitialMessages(2)),
          Conversation(1, "T", ImageModel, <<Asked, Drawn>>)>>}

\* Lists an earlier version of the page left in the record.
LegacyLists ==
  { <<>>,
    <<Conversation(1, "T", FlashModel, <<Asked, Answered>>)>>,
    <<Conversation(1, "", "gemini-1.5-pro", <<Asked, Answered>>)>> }

\* A handler hands a list to updateConversationsMutation.
SaveList(list) ==
  /\ ~Busy
  /\ ops < scope.ops
  /\ ops' = ops + 1
  /\ mq' = <<Write(list, "none", 0)>>
  /\ UNCHANGED <<cache, storage, appVars, transportVars, nextId, faults, escalated>>
  /\ UNCHANGED <<scope, deleteLog, stored, inputVars, showApiKeyModal, deleted>>

\* The page is opened on whatever the record holds.
StoreInit ==
  /\ Mounted
  /\ cache = <<>>
  /\ stored \in {"none", "list"} \cup CorruptKinds
  /\ storage \in IF stored = "list" THEN LegacyLists ELSE {<<>>}
  /\ apiKey = NoKey
  /\ ai = NoKey
  /\ chat = NoChat
  /\ activeCache = Null
  /\ currentModelName = ProModel
  /\ pending = <<>>
  /\ liveCaches = {}
  /\ nextCache = 1
  /\ deleteLog = <<>>
  /\ scope = Scope(0, MaxOps, MaxFaults, {}, 0, {}, FALSE)

StoreNext ==
  \/ LoadConversations
  \/ \E list \in StoreLists : SaveList(list)
  \/ UpdateOnMutate
  \/ UpdateSave
  \/ UpdateSettle
  \/ ClearStorageError

StoreSpec == StoreInit /\ [][StoreNext]_vars

\* C19: a load of the record that saving the conversation list wrote gives
\* the same conversations with the same messages, each with the text and the
\* timestamp it had and with no generated images.
C19_RoundTrip ==
  [][ (LoadConversations /\ stored = "list" /\ storage = StripImages(cache))
      => /\ Len(cache') = Len(cache)
         /\ \A i \in 1..Len(cache) :
               /\ Len(cache'[i].messages) = Len(cache[i].messages)
               /\ \A j \in 1..Len(cache[i].messages) :
                     /\ cache'[i].messages[j].generatedImages = <<>>
                     /\ cache'[i].messages[j].text = cache[i].messages[j].text
                     /\ cache'[i].messages[j].timestamp = cache[i].messages[j].timestamp
     ]_vars

\* A message that carried generated images was saved and loaded.
C19_Witness ==
  /\ ops >= 2
  /\ stored = "list"
  /\ mq = <<>>
  /\ cache = fetchConversations(stored, storage)
  /\ \E m \in AllMessages(cache) : m.text = ImagesOk /\ m.generatedImages = <<>>

\* C20: a load of a record that is not a well-formed conversation list
\* returns the empty list and removes the record.
C20_CorruptErased ==
  [][ (LoadConversations /\ stored \in CorruptKinds)
      => (cache' = <<>> /\ stored' = "none") ]_vars

\* ------------------------------------------------------- target and session
\* The model the conversation of a send has in the repository.
ModelOf(convs, id) == convs[Find(convs, id)].model

\* This turn has a file or a URL.
RequiresPro(s) == s.files # <<>> \/ s.text = "url"

\* C21: the target model of a send is the image-generation model when the
\* conversation's selected model is that model; otherwise gemini-2.5-pro when
\* the conversation is escalated or the turn has a file or a URL; otherwise the
\* conversation's selected model.
C21_TargetResolution ==
  [][ \A sid \in 1..Len(sends) :
        (sends[sid].target = "none" /\ sends'[sid].target # "none"
         /\ sends[sid].conv \in Ids(cache))
        => sends'[sid].target =
             IF ModelOf(cache, sends[sid].conv) = ImageModel THEN ImageModel
             ELSE IF sends[sid].conv \in escalated \/ RequiresPro(sends[sid])
             THEN ProModel
             ELSE ModelOf(cache, sends[sid].conv)
     ]_vars

\* The backend model and the tools a session of a logical model is to have.
BackendOf(modelName) == IF modelName = MapsModel THEN LiteModel ELSE modelName

ToolSetOf(modelName) ==
  IF modelName = MapsModel THEN {"googleMaps"}
  ELSE IF modelName = ImageModel THEN {}
  ELSE {"googleSearch", "urlContext", "codeExecution"}

\* C22: the session in use is the session of one logical model, with the
\* backend model and the tool set fixed for that model: the maps model runs on
\* gemini-2.5-flash-lite with the maps tool only, the image-generation model
\* has no tools, every other model runs as itself with the web-search,
\* URL-context and code-execution tools.
C22_SessionMapping ==
  chat # NoChat =>
    \E modelName \in ModelIds :
       /\ chat = CreateChat(modelName, chat.cachedContent, chat.history)
       /\ chat.model = BackendOf(modelName)
       /\ chat.tools = ToolSetOf(modelName)

\* ------------------------------------------------------------- file intake
\* Sizes are in MB.
MAX_FILE_SIZE == 50
MAX_INLINE_SIZE == 19
MaxBatch == 2

File(name, size, type) == [name |-> name, size |-> size, type |-> type]

\* The files a user can pick: small and large images and PDFs, an image of
\* exactly the size ceiling, oversized files, a video, an oversized video, and
\* a second file named like the first.
Files ==
  { File("a", 1, <<"image", "png">>),
    File("b", 20, <<"application", "pdf">>),
    File("c", MAX_FILE_SIZE, <<"image", "png">>),
    File("d", MAX_FILE_SIZE + 1, <<"application", "pdf">>),
    File("e", 1, <<"video", "mp4">>),
    File("f", MAX_FILE_SIZE + 1, <<"video", "mp4">>),
    File("a", 20, <<"application", "pdf">>) }

Batches == UNION {[1..n -> Files] : n \in 0..MaxBatch}

\* ALLOWED_FILE_TYPES.some(type => file.type.startsWith(type))
AllowedType(type) ==
  type[1] = "image" \/ (type[1] = "application" /\ type[2] = "pdf")

\* validateSingleFile returns null.
NoFileError == [name |-> "", reason |-> "none"]

\* The error of one file, or null.
validateSingleFile(file) ==
  IF file.size > MAX_FILE_SIZE THEN [name |-> file.name, reason |-> "size"]
  ELSE IF ~AllowedType(file.type) THEN [name |-> file.name, reason |-> "type"]
  ELSE NoFileError

validateFiles(files) ==
  [valid |-> SelectSeq(files, LAMBDA f : validateSingleFile(f) = NoFileError),
   errors |-> SeqMap(validateSingleFile,
                     SelectSeq(files, LAMBDA f : validateSingleFile(f) # NoFileError))]

HasName(files, name) == \E i \in 1..Len(files) : files[i].name = name

\* A selection that is attached only when every file of it passes.
ValidIfAllValid(prevFiles, newFiles) ==
  LET fresh == SelectSeq(newFiles, LAMBDA f : ~HasName(prevFiles, f.name))
  IN  IF \A i \in 1..Len(fresh) : validateSingleFile(fresh[i]) = NoFileError
      THEN fresh ELSE <<>>

\* The files of a selection that handleFileChange attaches: not yet attached
\* by name, and passing validateSingleFile.
ValidNewFiles(prevFiles, newFiles) ==
  SelectSeq(newFiles,
            LAMBDA f : ~HasName(prevFiles, f.name) /\ validateSingleFile(f) = NoFileError)

\* ChatInput.handleFileChange: each file that fails is dropped with a warning.
handleFileChange(batch) ==
  /\ ~Busy
  /\ ~(isLoading \/ apiKey = NoKey)
  /\ ops < scope.ops
  /\ ops' = ops + 1
  /\ attached' = attached \o ValidNewFiles(attached, batch)
  /\ picked' = [batch |-> batch,
                warned |-> SeqMap(validateSingleFile,
                             SelectSeq(batch, LAMBDA f : ~HasName(attached, f.name)
                                                  /\ validateSingleFile(f) # NoFileError))]
  /\ UNCHANGED <<cache, storage, appVars, transportVars, mq, nextId, faults, escalated>>
  /\ UNCHANGED <<scope, deleteLog, stored, showApiKeyModal, deleted>>

\* ChatInput.removeFile
removeFile(indexToRemove) ==
  /\ ~Busy
  /\ ~(isLoading \/ apiKey = NoKey)
  /\ indexToRemove \in 1..Len(attached)
  /\ ops < scope.ops
  /\ ops' = ops + 1
  /\ attached' = RemoveAt(attached, indexToRemove)
  /\ UNCHANGED <<cache, storage, appVars, transportVars, mq, nextId, faults, escalated>>
  /\ UNCHANGED <<scope, deleteLog, stored, picked, showApiKeyModal, deleted>>

\* A file as streamGeminiResponse distinguishes it.
AsPart(file) ==
  [big |-> file.size > MAX_INLINE_SIZE,
   pdf |-> file.type = <<"application", "pdf">>]

\* ChatInput.handleSend: handleSendMessage with the attached files, which
\* validates them again and gives up the send when one of them fails.
handleSend(text) ==
  /\ LET r == validateFiles(attached) IN
       IF apiKey # NoKey /\ r.errors # <<>>
       THEN /\ ~Busy /\ Started
            /\ text # "blank" \/ attached # <<>>
            /\ ~isLoading
            /\ fileErrors' = "invalid"
            /\ UNCHANGED <<cache, storage, apiKey, isInitialized, activeConversationId,
                           selectedModel, activeModel, isProSession, isLoading,
                           activeStreamingRef, storageError, transportVars, mq, nextId,
                           ops, faults, escalated>>
            /\ UNCHANGED <<scope, deleteLog, stored, showApiKeyModal, deleted>>
       ELSE SendMessage(text, SeqMap(AsPart, r.valid), "input")
  /\ attached' = <<>>
  /\ UNCHANGED picked

\* The page with a credential, before the start-up effect has run.
FileInit ==
  /\ Mounted
  /\ cache = <<>>
  /\ storage = <<>>
  /\ stored = "none"
  /\ apiKey = Key1
  /\ ai = NoKey
  /\ chat = NoChat
  /\ activeCache = Null
  /\ currentModelName = ProModel
  /\ pending = <<>>
  /\ liveCaches = {}
  /\ nextCache = 1
  /\ deleteLog = <<>>
  /\ scope = Scope(1, MaxBatch, 0,
                   {Input(text, SeqMap(AsPart, files)) : text \in Texts, files \in Batches},
                   0, {}, FALSE)

FileNext ==
  \/ initializeApp
  \/ UpdateOnMutate
  \/ UpdateSave
  \/ UpdateSettle
  \/ \E batch \in Batches : handleFileChange(batch)
  \/ \E i \in 1..(MaxBatch * MaxBatch) : removeFile(i)
  \/ \E text \in Texts : handleSend(text)

FileSpec == FileInit /\ [][FileNext]_vars

\* The claim's criterion of rejection.
Rejected(file) ==
  \/ file.size > 50
  \/ file.type[1] # "image" /\ file.type # <<"application", "pdf">>

\* C23: of a selection of files each file is judged by itself: it is rejected
\* exactly when it is larger than 50MB or its type is neither an image nor
\* PDF, each rejected file gives exactly one message, the other files of the
\* selection are attached, and a send transmits every attached file.
C23_PerFileValidation ==
  [][ /\ \A batch \in Batches :
            handleFileChange(batch) =>
              LET fresh == SelectSeq(batch, LAMBDA f : ~HasName(attached, f.name))
                  bad == SelectSeq(fresh, Rejected)
              IN  /\ attached' = attached \o SelectSeq(fresh, LAMBDA f : ~Rejected(f))
                  /\ Len(picked'.warned) = Len(bad)
                  /\ \A i \in 1..Len(bad) : picked'.warned[i].name = bad[i].name
      /\ \A text \in Texts :
            (handleSend(text) /\ Len(sends') = Len(sends) + 1)
              => sends'[Len(sends')].files = SeqMap(AsPart, attached)
    ]_vars

\* A selection with a file that passes and a file that is rejected was made on
\* an empty input, and the file that passes went into a send.
C23_Witness ==
  /\ \E i, j \in 1..Len(picked.batch) :
        ~Rejected(picked.batch[i]) /\ Rejected(picked.batch[j])
  /\ Len(picked.warned) = 1
  /\ Len(sends) = 1
  /\ sends[1].files = SeqMap(AsPart, SelectSeq(picked.batch, LAMBDA f : ~Rejected(f)))

\* ------------------------------------------------------ a page opened again
\* The identifier of a conversation of an earlier visit.
StoredId == MaxConvs + 2

\* What an earlier visit left in the record: one fresh conversation, or two.
StoredLists ==
  { <<Conversation(StoredId, "New Chat", ProModel, createInitialMessages(StoredId))>>,
    <<Conversation(StoredId, "New Chat", FlashModel, createInitialMessages(StoredId)),
      Conversation(StoredId + 1, "T", ProModel, <<Asked, Answered>>)>> }

\* The page is opened with conversations in the record and no credential.
ReopenInit ==
  /\ Mounted
  /\ storage \in StoredLists
  /\ stored = "list"
  /\ cache = fetchConversations(stored, storage)
  /\ apiKey = NoKey
  /\ ai = NoKey
  /\ chat = NoChat
  /\ activeCache = Null
  /\ currentModelName = ProModel
  /\ pending = <<>>
  /\ liveCaches = {}
  /\ nextCache = 1
  /\ deleteLog = <<>>
  /\ scope = Scope(1, MaxOps, 0, SuggestionInputs, 0, {}, FALSE)

ReopenNext ==
  \/ UpdateOnMutate
  \/ UpdateSave
  \/ UpdateSettle
  \/ CloseApiKeyModal
  \/ handleNewChat
  \/ \E id \in StoredId..(StoredId + 1) : handleSelectConversation(id)
  \/ \E model \in ModelChoices : handleModelChange(model)
  \/ \E id \in StoredId..(StoredId + 1) : handleDeleteConversation(id)
  \/ \E text \in Texts, via \in {"input", "suggestion"} : handleSendMessage(text, <<>>, via)

ReopenSpec == ReopenInit /\ [][ReopenNext]_vars

\* C24: a send made while no credential is set starts no call of the backend,
\* adds no message to any conversation and does not take the streaming token.
C24_NoCredentialNoSend ==
  [][ \A text \in Texts, files \in FileSets, via \in {"input", "suggestion"} :
        (handleSendMessage(text, files, via) /\ apiKey = NoKey)
        => UNCHANGED <<cache, storage, sends, titles, mq, serviceVars,
                       activeStreamingRef, isLoading>>
    ]_vars

\* A suggestion of the selected conversation was clicked with no credential:
\* the settings dialog is all that came of it.
C24_Witness ==
  /\ apiKey = NoKey
  /\ ops = 1
  /\ activeConversationId = StoredId
  /\ showApiKeyModal
  /\ sends = <<>>
  /\ activeStreamingRef = Null

\* ------------------------------------------------------- rollback and store
\* The messages conversation id holds in convs (none when it is not there).
MessagesOf(convs, id) ==
  IF id \in Ids(convs) THEN convs[Find(convs, id)].messages ELSE <<>>

\* The failure of send sid has been handled with this step: its onError, and
\* the write of the error state it awaits, are over.
FailureHandled(sid) ==
  /\ sends[sid].pc \in {"onError", "awaitWrite"}
  /\ sends'[sid].pc = "onSettled"
  /\ sends'[sid].failed

\* C25: when the failure of a send has been handled, the conversation holds
\* every message it held before the send, in the same order and unchanged.
C25_RollbackKeepsMessages ==
  [][ \A sid \in 1..Len(sends) :
        FailureHandled(sid)
        => IsPrefix(MessagesOf(sends[sid].prev, sends[sid].conv),
                    MessagesOf(cache', sends[sid].conv))
    ]_vars

\* No write to the record and no send is in flight.
Quiet == mq = <<>> /\ \A sid \in 1..Len(sends) : sends[sid].pc = "done"

\* C26: whenever no write and no send is in flight, the record holds the
\* conversation list of the repository with the generated images removed.
C26_StoreConsistent == Quiet => storage = StripImages(cache)

\* C27: the session carries the system instruction exactly when it was given
\* no history and no cache; a session bound to a cache carries the cached
\* content and no instruction, and a session with history and no cache
\* carries neither.
C27_InstructionIffFresh ==
  chat # NoChat =>
    /\ chat.systemInstruction <=> (chat.history = <<>> /\ chat.cachedContent = Null)
    /\ chat.cachedContent # Null => ~chat.systemInstruction
    /\ (chat.history # <<>> /\ chat.cachedContent = Null) => ~chat.systemInstruction

\* A session bound to a cache was replaced, the cache deleted, by a session
\* with history: it carries neither cached content nor instruction.
C27_Witness ==
  /\ chat # NoChat
  /\ chat.history # <<>>
  /\ chat.cachedContent = Null
  /\ ~chat.systemInstruction
  /\ \E i \in 1..Len(deleteLog) : deleteLog[i].by = "session"

\* ------------------------------------------------------------ the payload
\* The send has exactly one file, a PDF above the inline threshold.
OneLargePdf(s) == Len(s.files) = 1 /\ s.files[1].big /\ s.files[1].pdf

\* One part per file: inline data up to the threshold, a pointer above it.
FileParts(files) ==
  [i \in 1..Len(files) |-> IF files[i].big THEN "fileData" ELSE "inlineData"]

\* C28: when the payload of a send goes out, a send with exactly one large
\* PDF has uploaded it, created a cache, started a session bound to that
\* cache and transmits the text part only; any other send has created no
\* cache and transmits one part per file followed by one text part.
C28_PayloadByAttachment ==
  [][ \A sid \in 1..Len(sends) :
        (sends[sid].pc # "stream" /\ sends'[sid].pc = "stream")
        => LET s == sends'[sid] IN
             IF OneLargePdf(s)
             THEN /\ s.cachePath
                  /\ s.newCache \in liveCaches'
                  /\ activeCache' = s.newCache
                  /\ chat'.cachedContent = s.newCache
                  /\ chat'.history = <<>>
                  /\ s.parts = <<"text">>
             ELSE /\ ~s.cachePath
                  /\ s.newCache = Null
                  /\ liveCaches' = liveCaches
                  /\ s.parts = FileParts(s.files) \o <<"text">>
    ]_vars

\* The payload of a send with one large PDF is out: the text part alone, on a
\* session bound to the cache made from the document.
C28_Witness ==
  \E sid \in 1..Len(sends) :
     /\ sends[sid].pc = "stream"
     /\ OneLargePdf(sends[sid])
     /\ sends[sid].parts = <<"text">>
     /\ chat.cachedContent = sends[sid].newCache
     /\ sends[sid].newCache \in liveCaches

\* ------------------------------------------------- file processing failure
\* The upload poll of send sid reported that the file failed processing.
ProcessingFailed(sid) == sends[sid].err = "processing"

\* C29: when the poll of an uploaded file reports FAILED, that send is aborted
\* and nothing else: it creates no cache and transmits no payload, its steps
\* leave the cache handle and the session as they are, its settling releases
\* the token, and once every send has settled the next send is accepted.
C29_ProcessingFailureAbortsSend ==
  [][ \A sid \in 1..Len(sends) :
        /\ PollDone(sid, "FAILED") => sends'[sid].pc = "onError"
        /\ ProcessingFailed(sid)'
           => /\ sends'[sid].pc \in {"onError", "awaitWrite", "onSettled", "done"}
              /\ sends'[sid].newCache = Null
              /\ sends'[sid] # sends[sid]
                 => UNCHANGED <<activeCache, chat, liveCaches, nextCache>>
              /\ (SendOnSettled(sid) /\ activeStreamingRef = sends[sid].conv)
                 => activeStreamingRef' = Null
              /\ (\A other \in 1..Len(sends') : sends'[other].pc = "done")
                 => (activeStreamingRef' = Null /\ ~isLoading')
    ]_vars

\* The file of one send failed processing, the send settled, and a later send
\* was accepted.
C29_Witness ==
  \E sid, later \in 1..Len(sends) :
     /\ sid < later
     /\ ProcessingFailed(sid)
     /\ sends[sid].pc = "done"
     /\ sends[later].pc = "stream"

\* ---------------------------------------------------------------- deletion
\* C30: once the writes a confirmed delete started are over, no conversation
\* with the deleted identifier is in the repository or in the record.
C30_DeletedIsGone ==
  mq = <<>> => \A id \in deleted : id \notin Ids(cache) /\ id \notin Ids(storage)

\* ------------------------------------------------------ the active conversation
\* C31: once the page is initialized with a credential, whenever no mutation
\* callback is in progress the active conversation identifier names a
\* conversation of the repository.
C31_ActiveExists ==
  (isInitialized /\ apiKey # NoKey /\ ~Busy) => activeConversationId \in Ids(cache)

\* ---------------------------------------------------------------- settling
\* The scopes the settling of sends is explored in: one send of any kind with
\* a navigation operation and an abnormal response; two sends with a large
\* document each; two sends of text with a navigation operation.
LiveScopes ==
  { Scope(1, 1, MaxFaults, {PlainText, WithPdf, WithFiles}, MaxChunks, {ThoughtChunk},
          FALSE),
    Scope(2, 0, 0, {WithPdf}, 0, {}, FALSE),
    Scope(2, 1, 0, {PlainText}, 0, {}, FALSE) }

LiveInit ==
  /\ Mounted
  /\ cache = <<>>
  /\ storage = <<>>
  /\ stored = "none"
  /\ apiKey \in {NoKey, Key1}
  /\ ai = NoKey
  /\ chat = NoChat
  /\ activeCache = Null
  /\ currentModelName = ProModel
  /\ pending = <<>>
  /\ liveCaches = {}
  /\ nextCache = 1
  /\ deleteLog = <<>>
  /\ scope \in LiveScopes

\* What the page does without the user: the start-up effect, the callbacks of
\* the mutations, and the responses of the backend.
Progress ==
  \/ UpdateOnMutate
  \/ UpdateSave
  \/ UpdateSettle
  \/ initializeApp
  \/ \E i \in 1..(MaxSends + MaxOps), ok \in BOOLEAN : SessionDeleteDone(i, ok)
  \/ SendOnMutate
  \/ SendMutationFn
  \/ \E sid \in 1..MaxSends : SendBeginGeneration(sid)
  \/ \E sid \in 1..MaxSends, ok \in BOOLEAN : UploadDone(sid, ok)
  \/ \E sid \in 1..MaxSends, state \in PollReports : PollDone(sid, state)
  \/ \E sid \in 1..MaxSends : PollThrows(sid)
  \/ \E sid \in 1..MaxSends, ok \in BOOLEAN : CacheCreateDone(sid, ok)
  \/ \E sid \in 1..MaxSends, ok \in BOOLEAN : CacheDeleteDone(sid, ok)
  \/ \E sid \in 1..MaxSends, chunk \in ChunkInputs : StreamChunk(sid, chunk)
  \/ \E sid \in 1..MaxSends, usage \in BOOLEAN : StreamEnd(sid, usage)
  \/ \E sid \in 1..MaxSends, kind \in {"generic", "key"} : StreamFail(sid, kind)
  \/ \E sid \in 1..MaxSends, n \in 0..1, usage \in BOOLEAN : ImageDone(sid, n, usage)
  \/ \E sid \in 1..MaxSends : ImageFail(sid)
  \/ \E sid \in 1..MaxSends : SendOnSuccess(sid)
  \/ \E sid \in 1..MaxSends : SendOnError(sid)
  \/ \E sid \in 1..MaxSends : SendOnSettled(sid)

\* What the user does, and the timers that clear the banners.
UserEvents ==
  \/ ClearStorageError
  \/ ClearFileErrors
  \/ CloseApiKeyModal
  \/ handleNewChat
  \/ \E id \in 1..MaxConvs : handleSelectConversation(id)
  \/ \E m \in ModelChoices : handleModelChange(m)
  \/ \E id \in 1..MaxConvs : handleDeleteConversation(id)
  \/ \E text \in Texts, files \in FileSets, via \in {"input", "suggestion"} :
       handleSendMessage(text, files, via)

LiveNext == Progress \/ UserEvents

\* Every backend call of a send returns or throws in the end, polling reports
\* ready or failed in the end, and the callbacks that are due are run.
LiveSpec == LiveInit /\ [][LiveNext]_vars /\ WF_vars(Progress)

\* Every accepted send settles in the end.
SendsSettle ==
  \A sid \in 1..MaxSends :
     (sid <= Len(sends)) ~> (sid <= Len(sends) /\ sends[sid].pc = "done")

\* The streaming token becomes empty again.
TokenEmpties == (activeStreamingRef # Null) ~> (activeStreamingRef = Null)

\* The last outcome of ai.files.get when send sid left the polling loop with
\* this step.
LeftPollOn(sid, outcomes) ==
  (sends[sid].pc = "poll" /\ sends'[sid].pc # "poll") => sends'[sid].report \in outcomes

\* C32 as stated: every accepted send settles and the streaming token becomes
\* empty again, and a send leaves the polling loop only on a report of ACTIVE
\* or FAILED.
C32_PollEndsOnReportOnly ==
  /\ SendsSettle
  /\ TokenEmpties
  /\ [][ \A sid \in 1..Len(sends) : LeftPollOn(sid, {"ACTIVE", "FAILED"}) ]_vars

\* C32: every accepted send settles and the streaming token becomes empty
\* again; a send leaves the polling loop only on a report of ACTIVE or FAILED
\* or when ai.files.get itself throws, and a throw fails the send.
C32_SendsSettle ==
  /\ SendsSettle
  /\ TokenEmpties
  /\ [][ \A sid \in 1..Len(sends) :
          /\ LeftPollOn(sid, {"ACTIVE", "FAILED", "thrown"})
          /\ PollThrows(sid) => sends'[sid].pc = "onError" ]_vars

\* A send whose status request threw has settled, and the token is empty.
C32_Witness ==
  \E sid \in 1..Len(sends) :
     /\ sends[sid].report = "thrown"
     /\ sends[sid].pc = "done"
     /\ activeStreamingRef = Null
     /\ ~isLoading

\* ------------------------------------------------- writes and concurrent sends
\* The messages send sid added that convs holds: its user message and its
\* placeholder, with what has been folded into it.
AddedBy(convs, sid) == {m \in AllMessages(convs) : m.id[1] = sid /\ m.id[2] \in {"user", "ai"}}

\* C33: when the success handler of a conversation-list write started by a
\* title update, a model change, a new chat or a delete has run, the user
\* message and the placeholder of every unsettled send on a conversation the
\* write keeps are in the repository as they were just before the handler.
C33_CommitKeepsLaterChanges ==
  [][ (UpdateSettle /\ mq[Turn].ok /\ mq[Turn].owner \in {"none", "title"})
      => \A sid \in 1..Len(sends) :
           (sends[sid].pc # "done" /\ sends[sid].conv \in Ids(mq[Turn].list))
           => AddedBy(cache, sid) \subseteq AddedBy(cache', sid) ]_vars

\* ------------------------------------------------ rollback and other operations
\* What a title update or a model change sets of a conversation.
Header(c) == [id |-> c.id, title |-> c.title, model |-> c.model]

Headers(convs) == {Header(convs[i]) : i \in 1..Len(convs)}

\* C34: when the failure of a send has been handled, the repository and the
\* record hold the conversations the repository held when the failure was
\* reported, each with the title and the model it had then: none that was
\* deleted during the send is back, and no title or model change is undone.
C34_RollbackKeepsOthers ==
  [][ \A sid \in 1..Len(sends) :
        (FailureHandled(sid) /\ sends'[sid].conv \in Ids(sends'[sid].atError))
        => /\ Headers(cache') = Headers(sends'[sid].atError)
           /\ Headers(storage') = Headers(sends'[sid].atError) ]_vars

\* ------------------------------------------------------ what the record holds
\* C35: no message of the record is an ai message with an empty completion
\* timestamp.
C35_NoPlaceholderStored == \A m \in AllMessages(storage) : ~IsStreaming(m)

\* --------------------------------------------------- the session of a payload
\* The payload of send sid goes out with this step.
PayloadSent(sid) == sends[sid].pc # "stream" /\ sends'[sid].pc = "stream"

\* A startNewChatSession call that new chat, conversation select or model
\* change made without waiting is still unresolved, for this model.
SessionUnresolved(modelName) ==
  \E i \in 1..Len(pending) : pending[i].awaiter = "none" /\ pending[i].model = modelName

\* C36: when the payload of a send goes out, the session it goes out on runs
\* the backend model of the send's target model, and no session creation that
\* new chat, conversation select or model change started for the model that
\* activeModel names is still unresolved.
C36_SessionOfTarget ==
  [][ \A sid \in 1..Len(sends) :
        PayloadSent(sid)
        => /\ sends'[sid].sessionModel = ActualModelName(sends'[sid].target)
           /\ ~SessionUnresolved(activeModel) ]_vars

\* ------------------------------------------------- teardown and installation
\* C37: whenever the session is bound to a cache that has not been deleted the
\* handle is that cache; and when the caches.delete that a startNewChatSession
\* call issued returns or throws while the handle is another cache than the
\* one it deleted, the handle stays, and so does a session bound to it.
C37_TeardownSparesLaterCache ==
  /\ [](chat.cachedContent \in liveCaches => activeCache = chat.cachedContent)
  /\ [][ \A i \in 1..Len(pending) : \A ok \in BOOLEAN :
           (SessionDeleteDone(i, ok) /\ activeCache \notin {Null, pending[i].del})
           => /\ activeCache' = activeCache
              /\ chat.cachedContent = activeCache => chat' = chat ]_vars

\* --------------------------------------------------- escalation of another
\* C38: a send without files and without a URL, on a conversation that never
\* had a send with a file or a URL, resolves to the model that conversation
\* has in the repository.
C38_EscalationStaysPut ==
  [][ \A sid \in 1..Len(sends) :
        ( /\ sends[sid].target = "none" /\ sends'[sid].target # "none"
          /\ sends[sid].conv \in Ids(cache)
          /\ sends[sid].conv \notin escalated
          /\ ~RequiresPro(sends[sid]) )
        => sends'[sid].target = ModelOf(cache, sends[sid].conv) ]_vars

\* ------------------------------------------------------ a replaced credential
\* A second credential of the user.
Key2 == "k2"

Keys == {Key1, Key2}

\* The settings button opens the credential dialog.
OpenSettings ==
  /\ ~Busy
  /\ ~showApiKeyModal
  /\ showApiKeyModal' = TRUE
  /\ UNCHANGED <<cache, storage, appVars, transportVars, mq, nextId, ops, faults,
                 escalated>>
  /\ UNCHANGED <<scope, deleteLog, stored, inputVars, deleted>>

\* handleSaveApiKey and verifyApiKeyMutation: the credential typed into the
\* dialog is verified; when valid it is stored, set as apiKey and the dialog
\* closes, otherwise the dialog shows an error.  Setting apiKey runs the
\* start-up effect again, which returns at once when isInitialized is set.
handleSaveApiKey(tempApiKey, isValid) ==
  /\ ~Busy
  /\ showApiKeyModal
  /\ ops < scope.ops
  /\ ops' = ops + 1
  /\ IF isValid
     THEN apiKey' = tempApiKey /\ showApiKeyModal' = FALSE
     ELSE UNCHANGED <<apiKey, showApiKeyModal>>
  /\ UNCHANGED <<cache, storage, isInitialized, activeConversationId, selectedModel,
                 activeModel, isProSession, isLoading, activeStreamingRef, fileErrors,
                 storageError, transportVars, mq, nextId, faults, escalated>>
  /\ UNCHANGED <<scope, deleteLog, stored, inputVars, deleted>>

\* The page with or without a stored credential; the user may replace it.
KeyInit ==
  /\ Mounted
  /\ cache = <<>>
  /\ storage = <<>>
  /\ stored = "none"
  /\ apiKey \in {NoKey} \cup Keys
  /\ ai = NoKey
  /\ chat = NoChat
  /\ activeCache = Null
  /\ currentModelName = ProModel
  /\ pending = <<>>
  /\ liveCaches = {}
  /\ nextCache = 1
  /\ deleteLog = <<>>
  /\ scope = Scope(2, MaxOps, 0, {PlainText}, 0, {}, FALSE)

KeyNext ==
  \/ initializeApp
  \/ UpdateOnMutate
  \/ UpdateSave
  \/ UpdateSettle
  \/ OpenSettings
  \/ CloseApiKeyModal
  \/ \E key \in Keys, isValid \in BOOLEAN : handleSaveApiKey(key, isValid)
  \/ handleNewChat
  \/ \E via \in {"input", "suggestion"} : handleSendMessage("plain", <<>>, via)
  \/ SendOnMutate
  \/ SendMutationFn
  \/ \E sid \in 1..MaxSends : SendBeginGeneration(sid)
  \/ \E sid \in 1..MaxSends : StreamEnd(sid, TRUE)
  \/ \E sid \in 1..MaxSends : SendOnSuccess(sid)
  \/ \E sid \in 1..MaxSends : SendOnSettled(sid)

KeySpec == KeyInit /\ [][KeyNext]_vars

\* C39: once the page is initialized, every send is issued on a client made
\* with the credential that is stored when the send is issued.
C39_SendsUseStoredCredential ==
  [][ \A sid \in 1..Len(sends) :
        (SendBeginGeneration(sid) /\ isInitialized) => ai = apiKey ]_vars

\* ------------------------------------------------------ the frame of a patch
\* Conversation lists the repository holds while a reply streams: one
\* conversation with a placeholder; a placeholder after a finished exchange;
\* a fresh conversation in front of a streaming one; an image request in
\* progress; two placeholders in one conversation; no placeholder at all.
PatchLists ==
  { <<Conversation(1, "T", ProModel, <<Asked, AiMessagePlaceholder(1)>>)>>,
    <<Conversation(1, "T", ProModel,
                   <<Asked, Answered, UserMessage(2, "url", <<>>), AiMessagePlaceholder(2)>>)>>,
    <<Conversation(2, "New Chat", FlashModel, createInitialMessages(2)),
      Conversation(1, "T", ProModel, <<Asked, AiMessagePlaceholder(1)>>)>>,
    <<Conversation(1, "T", ImageModel, <<Asked, Drawing>>)>>,
    <<Conversation(1, "T", ProModel,
                   <<Asked, AiMessagePlaceholder(1), UserMessage(2, "plain", <<SmallImage>>),
                     AiMessagePlaceholder(2)>>),
      Conversation(2, "T", ProModel, <<UserMessage(3, "plain", <<>>), Answered>>)>>,
    <<Conversation(1, "T", ProModel, <<Asked, Answered>>)>> }

\* One call of updateStreamingMessage on the repository.
Patch(conversationId, chunk) ==
  /\ ops < scope.ops
  /\ ops' = ops + 1
  /\ cache' = updateStreamingMessage(cache, conversationId, chunk)
  /\ UNCHANGED <<storage, appVars, transportVars, mq, nextId, faults, escalated>>
  /\ UNCHANGED <<scope, deleteLog, stored, inputVars, showApiKeyModal, deleted>>

PatchInit ==
  /\ Mounted
  /\ cache \in PatchLists
  /\ storage = <<>>
  /\ stored = "none"
  /\ apiKey = Key1
  /\ ai = NoKey
  /\ chat = NoChat
  /\ activeCache = Null
  /\ currentModelName = ProModel
  /\ pending = <<>>
  /\ liveCaches = {}
  /\ nextCache = 1
  /\ deleteLog = <<>>
  /\ scope = Scope(0, MaxOps, 0, {}, 0, {}, FALSE)

PatchNext == \E id \in 1..(MaxConvs + 1), chunk \in PatchChunks : Patch(id, chunk)

PatchSpec == PatchInit /\ [][PatchNext]_vars

\* C40: a call of updateStreamingMessage, for any conversation and any chunk,
\* leaves the same conversations in the same order with the same titles and
\* models; the conversations other than the given one are unchanged; and in
\* every conversation the messages are the same in number and order, each
\* user message and each message with a completion timestamp unchanged.
C40_PatchFrame ==
  [][ \A id \in 1..(MaxConvs + 1) : \A chunk \in PatchChunks :
        Patch(id, chunk)
        => /\ Len(cache') = Len(cache)
           /\ \A i \in 1..Len(cache) :
                /\ cache[i].id # id => cache'[i] = cache[i]
                /\ [cache'[i] EXCEPT !.messages = <<>>] = [cache[i] EXCEPT !.messages = <<>>]
                /\ Len(cache'[i].messages) = Len(cache[i].messages)
                /\ \A j \in 1..Len(cache[i].messages) :
                     LET m == cache[i].messages[j] IN
                       /\ cache'[i].messages[j].id = m.id
                       /\ (m.timestamp # 0 \/ m.sender = "user")
                          => cache'[i].messages[j] = m ]_vars

\* Text was folded into the placeholder of a conversation that also holds a
\* user message and a reply with a completion timestamp, which is as it was.
C40_Witness ==
  /\ ops > 0
  /\ \E i \in 1..Len(cache) :
        LET ms == cache[i].messages IN
          /\ \E j \in 1..Len(ms) : IsStreaming(ms[j]) /\ ms[j].text # <<>>
          /\ \E j \in 1..Len(ms) : ms[j] = Asked
          /\ \E j \in 1..Len(ms) : ms[j] = Answered

====
